---- MODULE Spec2Model ----
(***************************************************************************)
(* Verification model of the rag-service core of ai-assistant:             *)
(*   - MemoryCache          (app/core/cache.py)                            *)
(*   - VectorRetriever      (app/core/rag/retrieval.py)                    *)
(*   - EmbeddingService     (app/services/embedding.py)                    *)
(* Similarities are integers in hundredths (0.6 is 60, 0.4 is 40).         *)
(* Time is an integer number of seconds.                                   *)
(***************************************************************************)
EXTENDS Integers, Sequences, FiniteSets, Bags, TLC

(***************************************************************************)
(* Bounds of the model.                                                    *)
(***************************************************************************)
MaxCap == 2
MaxTime == 2
MaxTtl == 1
LruCap == 3
MaxScored == 3
MaxTopK == 3
MaxSmall == 12
MaxHigh == 6
MaxMid == 7
MaxTexts == 3
BATCH_SIZE == 2
MaxPages == 3
MaxParts == 2
MaxFilePages == 2
MaxRequests == 2

(***************************************************************************)
(* Program constants.                                                      *)
(***************************************************************************)
RETRIEVAL_TOP_K == 5
SIMILARITY_THRESHOLD == 60
StandardTopK == 5
StandardThreshold == 60
RelaxedTopK == 8
RelaxedThreshold == 40
MinResults == 3
SampleDivisor == 10
SampleLimit == 100
SampleMax == 10
FallbackLimit == 10
ZeroDim == 1024

(***************************************************************************)
(* Small input domains.                                                    *)
(***************************************************************************)
Texts == {"ta", "tb"}
Models == {"m1", "m2"}
Vectors == {"v1", "v2"}
None == "None"
NoKey == << >>

VARIABLES
    max_size,      \* MemoryCache.max_size
    ttl_seconds,   \* MemoryCache.ttl_seconds
    cache,         \* MemoryCache._cache: OrderedDict, a sequence of [key, val]
    timestamps,    \* MemoryCache._timestamps: dict key -> insertion time
    now,           \* time.time()
    lastOp,        \* the most recent cache operation and its arguments
    ret,           \* the value the most recent cache operation returned
    evicted,       \* the key removed by the capacity branch of the last set
    lru,           \* history: stored keys by recency of use, least recent first
    victim,        \* history: the least recently used key when the last set began
    hist,          \* history: the [key, val] sets since the cache was last empty
    histOK,        \* history: only sets of distinct keys happened since then
    setAt          \* history: time of the last set of each stored key

cacheVars == <<max_size, ttl_seconds, cache, timestamps, now, lastOp, ret,
               evicted, lru, victim, hist, histOK, setAt>>

VARIABLES
    nChunks,       \* document_chunks: number of rows of document "A" (indices 0..n-1)
    sims,          \* similarity to the query of the first rows of "A", in hundredths
    scanRev,       \* physical row order of document_chunks (decides ties of ORDER BY)
    totalChunks,   \* pdf_record["totalChunks"]
    req,           \* arguments of the running search / smart_retrieval call
    pc,            \* position of the running call
    attempted,     \* smart_retrieval: the tiers attempted so far, in order
    yield,         \* smart_retrieval: the list each attempted tier produced
    outcome,       \* "none", "returned" or "raised"
    result         \* the list returned

retrVars == <<nChunks, sims, scanRev, totalChunks, req, pc, attempted, yield,
              outcome, result>>

VARIABLES
    cache_enabled, \* EmbeddingService.cache is not None (settings.CACHE_ENABLED)
    call,          \* per request: the running embed_single / embed_batch call
    prev           \* history: the call that returned last, nothing having
                   \* happened since

embVars == <<cache_enabled, call, prev>>

VARIABLES
    enabled,       \* QueryRewriter.enabled (settings.ENABLE_QUERY_REWRITE)
    rw,            \* the running QueryRewriter.rewrite call and its result
    pdfs,          \* table pdfs: status and file of each document id
    chunk_rows,    \* table document_chunks as the writers see it: the bag of its rows
    job,           \* per request: the running upload / reprocess / delete
    requests       \* number of requests received so far

storeVars == <<pdfs, chunk_rows, job, requests>>

docVars == <<enabled, rw, storeVars>>

vars == <<cacheVars, retrVars, embVars, docVars>>

(***************************************************************************)
(* MemoryCache._generate_key: "emb:{model}:{md5(text)}".  The digest is a  *)
(* fixed table on the texts of the model, distinct texts having distinct   *)
(* digests; the key is the triple of its three fields.                     *)
(***************************************************************************)
Md5(text) == IF text = "ta" THEN "d41d" ELSE IF text = "tb" THEN "9e10" ELSE "c4ca"

_generate_key(text, model) == <<"emb", model, Md5(text)>>

AllKeys == {_generate_key(t, m) : t \in Texts, m \in Models}

(***************************************************************************)
(* OrderedDict helpers.                                                    *)
(***************************************************************************)
KeysOf(c) == {c[i].key : i \in 1..Len(c)}

IndexOf(c, k) == CHOOSE i \in 1..Len(c) : c[i].key = k

Lookup(c, k) == c[IndexOf(c, k)].val

\* del d[k]
DelKey(c, k) == SelectSeq(c, LAMBDA e : e.key # k)

\* d[k] = v : an existing key keeps its position, a new key goes to the end
SetItem(c, k, v) ==
    IF k \in KeysOf(c)
    THEN [c EXCEPT ![IndexOf(c, k)] = [key |-> k, val |-> v]]
    ELSE Append(c, [key |-> k, val |-> v])

\* d.move_to_end(k)
move_to_end(c, k) == Append(DelKey(c, k), [key |-> k, val |-> Lookup(c, k)])

\* a cache that drops the newest entry instead of the oldest
OldestKey_newest(c) == c[Len(c)].key

\* next(iter(d))
OldestKey(c) == c[1].key

\* del on a plain dict
DelStamp_kept(ts, k) == ts

DelStamp(ts, k) == [x \in (DOMAIN ts) \ {k} |-> ts[x]]

SetStamp(ts, k, t) == [x \in (DOMAIN ts) \cup {k} |-> IF x = k THEN t ELSE ts[x]]

\* an entry that expires as soon as its age reaches the TTL
IsExpired_atTtl(t, stamp, ttl) == t - stamp >= ttl

\* an age computed with its operands swapped
IsExpired_swapped(t, stamp, ttl) == stamp - t > ttl

\* time.time() - timestamp > self.ttl_seconds
IsExpired(t, stamp, ttl) == t - stamp > ttl

(***************************************************************************)
(* History helpers (recency list of the stored keys).                      *)
(***************************************************************************)
Without(s, k) == SelectSeq(s, LAMBDA x : x # k)

Touch(s, k) == Append(Without(s, k), k)

(***************************************************************************)
(* MemoryCache.__init__                                                    *)
(***************************************************************************)
NoOp == [op |-> "init", key |-> NoKey, val |-> None, branch |-> "none"]

InitWith(cap) ==
    /\ max_size \in 1..cap
    /\ ttl_seconds \in {0, MaxTtl}
    /\ cache = << >>
    /\ timestamps = << >>
    /\ now = 0
    /\ lastOp = NoOp
    /\ ret = None
    /\ evicted = NoKey
    /\ lru = << >>
    /\ victim = NoKey
    /\ hist = << >>
    /\ histOK = TRUE
    /\ setAt = << >>

NoArg == -1
NoPdf == ""
NoReq == [op |-> "none", pdf_id |-> NoPdf, top_k |-> NoArg, threshold |-> NoArg]
NoYield == [t \in {} |-> << >>]

\* no retrieval call is running
RetrIdle ==
    /\ nChunks = 0
    /\ sims = << >>
    /\ scanRev = FALSE
    /\ totalChunks = 0
    /\ req = NoReq
    /\ pc = "idle"
    /\ attempted = << >>
    /\ yield = NoYield
    /\ outcome = "none"
    /\ result = << >>

(***************************************************************************)
(* EmbeddingService: the state of one request's call.  Requests are the    *)
(* coroutines of the event loop; Procs names them.                         *)
(***************************************************************************)
Procs == {1, 2}

\* The fields up to ret are the arguments, the local variables and the result
\* of the call.  The others are history: the requests the call sent to the
\* endpoint, the answer to the last of them, the number of cache lookups the
\* call made, and whether the cache held none of its texts when it began.
IdleCall == [op |-> "idle", pc |-> "idle", text |-> "", texts |-> << >>,
             model |-> "", batch_idx |-> 0,
             uncached_texts |-> << >>, uncached_indices |-> << >>,
             batch_results |-> << >>, results |-> << >>,
             cache_hits |-> 0, cache_misses |-> 0, k |-> 0,
             outcome |-> "none", error |-> "none", ret |-> << >>,
             remote |-> << >>, answer |-> "none", lookups |-> 0,
             cold |-> TRUE, again |-> FALSE]

NoPrev == [op |-> "none", texts |-> << >>, model |-> "", hits |-> 0, misses |-> 0,
           embedded |-> FALSE]

\* None where a text (a sequence of words) is expected
NoText == <<None>>

\* QueryRewriter.rewrite before its first statement
IdleRewrite ==
    [pc |-> "idle", query |-> << >>, original_query |-> << >>,
     normalized_query |-> NoText, final_query |-> << >>, query_type |-> "none",
     steps |-> << >>, sub_queries |-> NoText, error |-> FALSE, outcome |-> "none",
     llm |-> 0, failed |-> "none", heard |-> << >>]

Docs == {"A", "B"}

\* no row of table pdfs has this id
NoRow == [status |-> "none", pages |-> << >>, totalChunks |-> 0]

\* a request before its first statement
IdleJob ==
    [op |-> "idle", pc |-> "idle", pdf_id |-> "", page_texts |-> << >>, i |-> 0,
     chunks |-> << >>, k |-> 0, broke |-> 0, wrote |-> "none", lost |-> 0,
     outcome |-> "none", seen |-> "unread", calls |-> << >>]

\* both tables are empty and no request is running
StoreIdle ==
    /\ pdfs = [d \in Docs |-> NoRow]
    /\ chunk_rows = EmptyBag
    /\ job = [p \in Procs |-> IdleJob]
    /\ requests = 0

\* the rewriter is enabled as configured and no rewrite is running
DocIdle ==
    /\ enabled = TRUE
    /\ rw = IdleRewrite
    /\ StoreIdle

\* no embedding call is running
EmbIdle ==
    /\ cache_enabled = TRUE
    /\ call = [p \in Procs |-> IdleCall]
    /\ prev = NoPrev

InitCache == InitWith(MaxCap) /\ RetrIdle /\ EmbIdle /\ DocIdle

InitLru == InitWith(LruCap) /\ RetrIdle /\ EmbIdle /\ DocIdle

\* len(self._cache) >= self.max_size
Full_beyond(c, cap) == Len(c) > cap

Full(c, cap) == Len(c) >= cap

\* _timestamps after a get that hits: get writes no timestamp
HitStamps_refreshed(ts, k, t) == SetStamp(ts, k, t)

HitStamps(ts, k, t) == ts

\* self._timestamps.get(key, 0)
StampOf(ts, k) == IF k \in DOMAIN ts THEN ts[k] ELSE 0

(***************************************************************************)
(* MemoryCache.get(text, model)                                            *)
(***************************************************************************)
GetBranch(c, ts, t, ttl, key) ==
    IF key \notin KeysOf(c) THEN "miss"
    ELSE IF IsExpired(t, StampOf(ts, key), ttl) THEN "expired"
    ELSE "hit"

\* the value get returns
GetRet(c, ts, t, ttl, key) ==
    IF GetBranch(c, ts, t, ttl, key) = "hit" THEN Lookup(c, key) ELSE None

CacheGet(text, model) ==
    LET key == _generate_key(text, model)
        branch == GetBranch(cache, timestamps, now, ttl_seconds, key)
    IN
    /\ lastOp' = [op |-> "get", key |-> key, branch |-> branch,
                  val |-> IF lastOp.op = "set" /\ lastOp.key = key
                          THEN lastOp.val ELSE None]
    /\ ret' = GetRet(cache, timestamps, now, ttl_seconds, key)
    /\ evicted' = NoKey
    /\ victim' = NoKey
    /\ hist' = << >>
    /\ histOK' = FALSE
    /\ UNCHANGED <<max_size, ttl_seconds, now>>
    /\ UNCHANGED <<retrVars, embVars, docVars>>
    /\ IF branch = "miss"
       THEN UNCHANGED <<cache, timestamps, lru, setAt>>
       ELSE IF branch = "expired"
       THEN /\ cache' = DelKey(cache, key)
            /\ timestamps' = DelStamp(timestamps, key)
            /\ lru' = Without(lru, key)
            /\ setAt' = DelStamp(setAt, key)
       ELSE /\ cache' = move_to_end(cache, key)
            /\ lru' = Touch(lru, key)
            /\ timestamps' = HitStamps(timestamps, key, now)
            /\ UNCHANGED setAt

(***************************************************************************)
(* MemoryCache.set(text, model, embedding)                                 *)
(***************************************************************************)
CacheSet(text, model, embedding) ==
    LET key == _generate_key(text, model)
        full == Full(cache, max_size)
        oldest_key == IF full THEN OldestKey(cache) ELSE NoKey
        c1 == IF full THEN DelKey(cache, oldest_key) ELSE cache
        t1 == IF full THEN DelStamp(timestamps, oldest_key) ELSE timestamps
    IN
    /\ cache' = SetItem(c1, key, embedding)
    /\ timestamps' = SetStamp(t1, key, now)
    /\ ret' = None
    /\ lastOp' = [op |-> "set", key |-> key, val |-> embedding,
                  branch |-> IF full THEN "evict" ELSE "room"]
    /\ evicted' = oldest_key
    /\ victim' = IF full /\ Len(lru) > 0 THEN Head(lru) ELSE NoKey
    /\ lru' = Touch(IF full THEN Without(lru, oldest_key) ELSE lru, key)
    /\ setAt' = SetStamp(IF full THEN DelStamp(setAt, oldest_key) ELSE setAt, key, now)
    /\ IF cache = << >>
       THEN /\ hist' = <<[key |-> key, val |-> embedding]>>
            /\ histOK' = TRUE
       ELSE IF histOK /\ Len(hist) <= max_size
                      /\ \A i \in 1..Len(hist) : hist[i].key # key
       THEN /\ hist' = Append(hist, [key |-> key, val |-> embedding])
            /\ histOK' = TRUE
       ELSE /\ hist' = << >>
            /\ histOK' = FALSE
    /\ UNCHANGED <<max_size, ttl_seconds, now>>
    /\ UNCHANGED <<retrVars, embVars, docVars>>

(***************************************************************************)
(* MemoryCache.clear()                                                     *)
(***************************************************************************)
CacheClear ==
    /\ ret' = Len(cache)
    /\ cache' = << >>
    /\ timestamps' = << >>
    /\ lastOp' = [op |-> "clear", key |-> NoKey, val |-> None, branch |-> "none"]
    /\ evicted' = NoKey
    /\ victim' = NoKey
    /\ lru' = << >>
    /\ hist' = << >>
    /\ histOK' = TRUE
    /\ setAt' = << >>
    /\ UNCHANGED <<max_size, ttl_seconds, now>>
    /\ UNCHANGED <<retrVars, embVars, docVars>>

(***************************************************************************)
(* The clock read by time.time() advances.                                 *)
(***************************************************************************)
Tick ==
    /\ now < MaxTime
    /\ now' = now + 1
    /\ lastOp' = [op |-> "tick", key |-> NoKey, val |-> None, branch |-> "none"]
    /\ ret' = None
    /\ evicted' = NoKey
    /\ victim' = NoKey
    /\ UNCHANGED <<max_size, ttl_seconds, cache, timestamps, lru, hist, histOK, setAt>>
    /\ UNCHANGED <<retrVars, embVars, docVars>>

DoGet == \E t \in Texts, m \in Models : CacheGet(t, m)

DoSet == \E t \in Texts, m \in Models, v \in Vectors : CacheSet(t, m, v)

NextCache == DoGet \/ DoSet \/ CacheClear \/ Tick

SpecCache == InitCache /\ [][NextCache]_vars

\* the same cache with the clock standing still, so that no entry expires
NextLru == DoGet \/ DoSet \/ CacheClear

SpecLru == InitLru /\ [][NextLru]_vars

(***************************************************************************)
(* MemoryCache.stats()["total_keys"]                                       *)
(***************************************************************************)
total_keys == Len(cache)

TypeCache ==
    /\ KeysOf(cache) \subseteq AllKeys
    /\ Len(cache) = Cardinality(KeysOf(cache))

(***************************************************************************)
(* The chunk store seen by one query.  Document "A" has nChunks rows with  *)
(* chunk_index 0..nChunks-1; row i has similarity sims[i+1] to the query   *)
(* while i < Len(sims) and a similarity below every threshold after that.  *)
(* Document "B" is another document of the same store.  NullSim marks a    *)
(* row whose embedding is NULL.                                            *)
(***************************************************************************)
NullSim == -1
OtherSims == <<95, 60, 45>>
SimLevels == {NullSim, 39, 40, 60, 75}
BigSizes == {25, 100, 120}
StaleTotals == {25}
DocSizes == (0..MaxSmall) \cup BigSizes

LowSim(i) == IF i % 2 = 0 THEN 39 ELSE 0

SimOf(i) == IF i < Len(sims) THEN sims[i + 1] ELSE LowSim(i)

RowsA ==
    [i \in 1..nChunks |->
        [pdf_id |-> "A", chunk_index |-> i - 1, similarity |-> SimOf(i - 1)]]

RowsB ==
    [i \in 1..Len(OtherSims) |->
        [pdf_id |-> "B", chunk_index |-> i - 1, similarity |-> OtherSims[i]]]

Reverse(s) == [i \in 1..Len(s) |-> s[Len(s) + 1 - i]]

\* the table in its physical order
document_chunks == IF scanRev THEN Reverse(RowsA \o RowsB) ELSE RowsA \o RowsB

Max(a, b) == IF a >= b THEN a ELSE b

\* a distance that grows with the similarity
Distance_reversed(row) == row.similarity

\* dc.embedding <=> CAST(:vec AS vector), with similarity = 1 - distance
Distance(row) == 100 - row.similarity

\* the position of row i once the rows are ordered by ascending key, rows of
\* equal key staying in the order in which the scan met them
RankOf(keys, i) ==
    Cardinality({j \in 1..Len(keys) :
                    keys[j] < keys[i] \/ (keys[j] = keys[i] /\ j < i)}) + 1

\* ORDER BY: the rows arranged by the keys given with them
Arrange(rows, keys) ==
    LET rank == [i \in 1..Len(rows) |-> RankOf(keys, i)]
    IN [p \in 1..Len(rows) |-> rows[CHOOSE i \in 1..Len(rows) : rank[i] = p]]

\* a query without its ORDER BY
OrderByDistance_unsorted(rows) == rows

\* ORDER BY dc.embedding <=> CAST(:vec AS vector)
OrderByDistance(rows) == Arrange(rows, [i \in 1..Len(rows) |-> Distance(rows[i])])

\* ORDER BY chunk_index
OrderByIndex(rows) == Arrange(rows, [i \in 1..Len(rows) |-> rows[i].chunk_index])

\* a query that skips its first row
Limit_skipFirst(rows, n) == SubSeq(rows, 2, IF Len(rows) < n THEN Len(rows) ELSE n)

\* LIMIT n
Limit(rows, n) == SubSeq(rows, 1, IF Len(rows) < n THEN Len(rows) ELSE n)

\* `arg or default`: None and 0 are both falsy
OrDefault(arg, default) == IF arg = NoArg \/ arg = 0 THEN default ELSE arg

\* (1 - distance) >= :threshold
MeetsThreshold(sim, threshold) == sim >= threshold

\* a query that forgets its document filter
InDocument_any(row, pdf_id) == TRUE

\* if pdf_id: sql += " AND p.id = :pdf_id"
InDocument(row, pdf_id) == pdf_id = NoPdf \/ row.pdf_id = pdf_id

\* the rows the similarity query of search selects
SearchRows(pdf_id, top_k, threshold) ==
    Limit(OrderByDistance(SelectSeq(document_chunks,
              LAMBDA r : /\ r.similarity # NullSim
                         /\ InDocument(r, pdf_id)
                         /\ MeetsThreshold(r.similarity, threshold))),
          top_k)

\* the result dictionary built from a row of the similarity query
Ranked(row) ==
    [pdf_id |-> row.pdf_id, chunk_index |-> row.chunk_index,
     similarity |-> row.similarity]

\* a sampled result that keeps the similarity of its row
Unranked_keepSim(row) ==
    [pdf_id |-> row.pdf_id, chunk_index |-> row.chunk_index,
     similarity |-> Max(row.similarity, 1)]

\* the result dictionary built from a row of the sampling and fallback queries
Unranked(row) ==
    [pdf_id |-> row.pdf_id, chunk_index |-> row.chunk_index, similarity |-> 0]

FormatRanked(rows) == [i \in 1..Len(rows) |-> Ranked(rows[i])]

FormatUnranked(rows) == [i \in 1..Len(rows) |-> Unranked(rows[i])]

\* VectorRetriever.search, given that the query was embedded
search(pdf_id, top_k, threshold) ==
    FormatRanked(SearchRows(pdf_id, OrDefault(top_k, RETRIEVAL_TOP_K),
                            OrDefault(threshold, SIMILARITY_THRESHOLD)))

\* WHERE pdf_id = :pdf_id ORDER BY chunk_index LIMIT n
ChunksOf(pdf_id, n) ==
    Limit(OrderByIndex(SelectSeq(document_chunks, LAMBDA r : r.pdf_id = pdf_id)), n)

\* a sampling step that ignores the recorded size
SampleStep_one(total_chunks) == 1

\* step = max(1, total_chunks // 10)
SampleStep(total_chunks) == Max(1, total_chunks \div SampleDivisor)

\* for i, row in enumerate(rows): if i % step == 0: sampled.append(...);
\* if len(sampled) >= 10: break
Sample(rows, step) ==
    LET positions == SelectSeq([i \in 1..Len(rows) |-> i - 1],
                               LAMBDA i : i % step = 0)
        taken == Limit(positions, SampleMax)
    IN [k \in 1..Len(taken) |-> Unranked(rows[taken[k] + 1])]

UniformSample(pdf_id, total_chunks) ==
    Sample(ChunksOf(pdf_id, SampleLimit), SampleStep(total_chunks))

FinalFallback(pdf_id) == FormatUnranked(ChunksOf(pdf_id, FallbackLimit))

(***************************************************************************)
(* The retrieval specifications leave the cache as constructed.            *)
(***************************************************************************)
CacheIdle ==
    /\ max_size = 1
    /\ ttl_seconds = 0
    /\ cache = << >>
    /\ timestamps = << >>
    /\ now = 0
    /\ lastOp = NoOp
    /\ ret = None
    /\ evicted = NoKey
    /\ lru = << >>
    /\ victim = NoKey
    /\ hist = << >>
    /\ histOK = TRUE
    /\ setAt = << >>

CallIdle ==
    /\ req = NoReq
    /\ pc = "idle"
    /\ attempted = << >>
    /\ yield = NoYield
    /\ outcome = "none"
    /\ result = << >>

(***************************************************************************)
(* VectorRetriever.search(query, pdf_id, top_k, threshold).  embed_ok is   *)
(* the outcome of embedding_service.embed_single(query): any exception of  *)
(* the try block is re-raised as ValueError.                               *)
(***************************************************************************)
PdfIds == {NoPdf, "A", "B"}
TopKs == {NoArg} \cup (1..MaxTopK)
Thresholds == {NoArg, 0, 40, 60, 100}

Search(pdf_id, top_k, threshold, embed_ok) ==
    /\ pc = "idle"
    /\ req' = [op |-> "search", pdf_id |-> pdf_id, top_k |-> top_k,
               threshold |-> threshold]
    /\ pc' = "done"
    /\ IF embed_ok
       THEN /\ result' = search(pdf_id, top_k, threshold)
            /\ outcome' = "returned"
       ELSE /\ result' = << >>
            /\ outcome' = "raised"
    /\ UNCHANGED <<nChunks, sims, scanRev, totalChunks, attempted, yield>>
    /\ UNCHANGED <<cacheVars, embVars, docVars>>

DoSearch ==
    \E pdf_id \in PdfIds, top_k \in TopKs, threshold \in Thresholds, ok \in BOOLEAN :
        Search(pdf_id, top_k, threshold, ok)

InitSearch ==
    /\ CacheIdle
    /\ DocIdle
    /\ CallIdle
    /\ EmbIdle
    /\ nChunks \in 0..MaxScored
    /\ sims \in [1..nChunks -> SimLevels]
    /\ scanRev \in BOOLEAN
    /\ totalChunks = nChunks

NextSearch == DoSearch

SpecSearch == InitSearch /\ [][NextSearch]_vars

(***************************************************************************)
(* VectorRetriever.smart_retrieval(query, pdf_id, pdf_record), one action  *)
(* per tier; every tier is one or two awaited calls.                       *)
(***************************************************************************)
SmartCall ==
    /\ pc = "idle"
    /\ req' = [op |-> "smart", pdf_id |-> "A", top_k |-> NoArg, threshold |-> NoArg]
    /\ pc' = "tier1"
    /\ UNCHANGED <<nChunks, sims, scanRev, totalChunks, attempted, yield, outcome, result>>
    /\ UNCHANGED <<cacheVars, embVars, docVars>>

Record(tier, chunks) == [t \in (DOMAIN yield) \cup {tier} |->
                            IF t = tier THEN chunks ELSE yield[t]]

\* a tier that is content with a single result
Enough_any(chunks) == Len(chunks) >= 1

\* if len(chunks) >= 3
Enough(chunks) == Len(chunks) >= MinResults

\* a ranked tier: search, then `if len(chunks) >= 3: return chunks`
RankedTier(tier, top_k, threshold, next, embed_ok) ==
    /\ attempted' = Append(attempted, tier)
    /\ IF ~embed_ok
       THEN /\ outcome' = "raised"
            /\ pc' = "done"
            /\ UNCHANGED <<yield, result>>
       ELSE \E chunks \in {search(req.pdf_id, top_k, threshold)} :
            /\ yield' = Record(tier, chunks)
            /\ IF Enough(chunks)
               THEN /\ result' = chunks
                    /\ outcome' = "returned"
                    /\ pc' = "done"
               ELSE /\ pc' = next
                    /\ UNCHANGED <<outcome, result>>
    /\ UNCHANGED <<nChunks, sims, scanRev, totalChunks, req>>
    /\ UNCHANGED <<cacheVars, embVars, docVars>>

Tier1 ==
    /\ pc = "tier1"
    /\ \E ok \in BOOLEAN : RankedTier(1, StandardTopK, StandardThreshold, "tier2", ok)

Tier2 ==
    /\ pc = "tier2"
    /\ \E ok \in BOOLEAN : RankedTier(2, RelaxedTopK, RelaxedThreshold, "tier3", ok)

Tier3 ==
    /\ pc = "tier3"
    /\ \E sampled \in {UniformSample(req.pdf_id, totalChunks)} :
       /\ attempted' = Append(attempted, 3)
       /\ yield' = Record(3, sampled)
       /\ IF sampled # << >>
          THEN /\ result' = sampled
               /\ outcome' = "returned"
               /\ pc' = "done"
          ELSE /\ pc' = "tier4"
               /\ UNCHANGED <<outcome, result>>
    /\ UNCHANGED <<nChunks, sims, scanRev, totalChunks, req>>
    /\ UNCHANGED <<cacheVars, embVars, docVars>>

Tier4 ==
    /\ pc = "tier4"
    /\ \E fallback \in {FinalFallback(req.pdf_id)} :
       /\ attempted' = Append(attempted, 4)
       /\ yield' = Record(4, fallback)
       /\ result' = fallback
       /\ outcome' = "returned"
       /\ pc' = "done"
    /\ UNCHANGED <<nChunks, sims, scanRev, totalChunks, req>>
    /\ UNCHANGED <<cacheVars, embVars, docVars>>

\* similarities of the scored rows: high ones (>= 0.6), then middle ones (>= 0.4)
HighSim(k) == IF k <= 3 THEN 100 - 10 * k ELSE 60

MidSim(k) == IF k = 1 THEN 59 ELSE IF k = 2 THEN 50 ELSE 40

Scored(h, m) == [k \in 1..(h + m) |-> IF k <= h THEN HighSim(k) ELSE MidSim(k - h)]

Min(a, b) == IF a <= b THEN a ELSE b

\* pdf_record["totalChunks"] as chat_with_pdf reads it: the count written when
\* processing finished, which outlives the rows once reprocess_pdf has
\* deleted them and not yet left the 'ready' status
RecordedTotals(n) == IF n = 0 THEN {0} \cup StaleTotals ELSE {n}

InitSmart ==
    /\ CacheIdle
    /\ DocIdle
    /\ CallIdle
    /\ EmbIdle
    /\ nChunks \in DocSizes
    /\ \E h \in 0..Min(MaxHigh, nChunks) : \E m \in 0..Min(MaxMid, nChunks - h) :
          \E asc \in BOOLEAN :
             sims = IF asc THEN Reverse(Scored(h, m)) ELSE Scored(h, m)
    /\ scanRev \in BOOLEAN
    /\ totalChunks \in RecordedTotals(nChunks)

NextSmart == SmartCall \/ Tier1 \/ Tier2 \/ Tier3 \/ Tier4

SpecSmart == InitSmart /\ [][NextSmart]_vars

(***************************************************************************)
(* EmbeddingService (app/services/embedding.py).  A vector is the record   *)
(* of the text and model it embeds and of its length; the remote endpoint  *)
(* answers a well-formed request for (text, model) with Emb(text, model).  *)
(***************************************************************************)
EMBEDDING_MODEL == "m1"

\* length of the vectors of a model: "m1" is baai/bge-m3, "m2" a model of
\* another length (text-embedding-ada-002)
Dim(model) == IF model = "m1" THEN 1024 ELSE 1536

Emb(text, model) == [text |-> text, model |-> model, dim |-> Dim(model)]

\* [0.0] * 1024
ZeroVector(model) == [text |-> "", model |-> "", dim |-> ZeroDim]

\* str.strip() on the texts of the model
strip(text) == IF text = " " THEN "" ELSE text

\* a validation that lets every text through
IsBlank_never(text) == FALSE

\* not text or not text.strip()
IsBlank(text) == text = "" \/ strip(text) = ""

\* model or self.settings.EMBEDDING_MODEL
OrModel(model) == IF model = None \/ model = "" THEN EMBEDDING_MODEL ELSE model

SingleTexts == Texts \cup {"", " "}
ModelArgs == {None, "m2"}
\* the lists of at most MaxTexts texts; the texts being interchangeable, a
\* list that is not empty starts with "ta"
BatchInputs ==
    {ts \in UNION {[1..n -> Texts] : n \in 0..MaxTexts} : ts = << >> \/ ts[1] = "ta"}

\* what the endpoint does with one request: a well-formed answer, a timeout
\* / 5xx / 429, a 401, or an answer of the wrong shape
SingleOutcomes == {"ok", "transient", "auth", "malformed"}
Permanent == {"auth", "malformed", "partial"}

\* a batch answer can also carry the right number of items, the first n of
\* them well formed and the next one without its "embedding" field
BatchOutcomes(miss) ==
    {[kind |-> o, n |-> 0] : o \in SingleOutcomes}
        \cup {[kind |-> "partial", n |-> n] : n \in 1..(Len(miss) - 1)}

(***************************************************************************)
(* MemoryCache.get and MemoryCache.set as functions of the dictionaries,   *)
(* for the callers that run several of them in one step of the event loop. *)
(***************************************************************************)
GetCache(c, ts, t, ttl, key) ==
    IF GetBranch(c, ts, t, ttl, key) = "miss" THEN c
    ELSE IF GetBranch(c, ts, t, ttl, key) = "expired" THEN DelKey(c, key)
    ELSE move_to_end(c, key)

GetStamps(c, ts, t, ttl, key) ==
    IF GetBranch(c, ts, t, ttl, key) = "expired" THEN DelStamp(ts, key) ELSE ts

SetCache(c, cap, key, v) ==
    SetItem(IF Len(c) >= cap THEN DelKey(c, OldestKey(c)) ELSE c, key, v)

\* a set that stores the entry and forgets its timestamp
SetStamps_skip(c, ts, cap, t, key) ==
    IF Len(c) >= cap THEN DelStamp(ts, OldestKey(c)) ELSE ts

SetStamps(c, ts, cap, t, key) ==
    SetStamp(IF Len(c) >= cap THEN DelStamp(ts, OldestKey(c)) ELSE ts, key, t)

(***************************************************************************)
(* A step of a call works on st = [c, ts, call]: the two dictionaries of   *)
(* the cache and the record of the call.                                   *)
(***************************************************************************)
\* `if self.cache: cached = self.cache.get(text, model)` ... `cached is not None`
IsHit(st, text, model) ==
    /\ cache_enabled
    /\ GetBranch(st.c, st.ts, now, ttl_seconds, _generate_key(text, model)) = "hit"

Cached(st, text, model) == Lookup(st.c, _generate_key(text, model))

AfterGet(st, text, model) ==
    IF cache_enabled
    THEN [st EXCEPT
            !.call.lookups = @ + 1,
            !.c = GetCache(st.c, st.ts, now, ttl_seconds, _generate_key(text, model)),
            !.ts = GetStamps(st.c, st.ts, now, ttl_seconds, _generate_key(text, model))]
    ELSE st

\* `if self.cache: self.cache.set(text, model, embedding)`
AfterSet(st, text, model, embedding) ==
    IF cache_enabled
    THEN [st EXCEPT
            !.c = SetCache(st.c, max_size, _generate_key(text, model), embedding),
            !.ts = SetStamps(st.c, st.ts, max_size, now, _generate_key(text, model))]
    ELSE st

\* the request sent to the endpoint, as the call remembers it
Sent(st, kind, input) ==
    [st EXCEPT !.call.remote =
        Append(@, [kind |-> kind, input |-> input, batch |-> st.call.batch_idx])]

\* the answer to the request sent last: the call remembers the failure it
\* met, a permanent one for good
Answered(st, o) ==
    IF o = "ok" \/ st.call.error \in Permanent
    THEN [st EXCEPT !.call.answer = o]
    ELSE [st EXCEPT !.call.answer = o, !.call.error = o]

Returned(st, value) ==
    [st EXCEPT !.call.pc = "done", !.call.outcome = "returned", !.call.ret = value]

Raised(st, error) ==
    [st EXCEPT !.call.pc = "done", !.call.outcome = "raised", !.call.error = error]

\* the local variables of embed_batch end with the call
Dropped(st) ==
    [st EXCEPT !.call.batch_idx = 0, !.call.k = 0,
               !.call.batch_results = << >>, !.call.uncached_texts = << >>,
               !.call.uncached_indices = << >>]

(***************************************************************************)
(* embed_single up to its first await: validation (it raises), cache       *)
(* lookup (it returns the cached vector) or request (it awaits the answer).*)
(***************************************************************************)
SingleTag(st, text, model) ==
    IF IsBlank(text) THEN "raise"
    ELSE IF IsHit(st, text, model) THEN "hit"
    ELSE "await"

\* the state in which embed_single awaits the answer to its request
SingleAsked(st, text, model) == Sent(AfterGet(st, text, model), "single", <<text>>)

\* an embed_single that returns the vector and does not store it
SingleStored_skip(st, text, model) == Answered(st, "ok")

\* embed_single after a well-formed answer
SingleStored(st, text, model) ==
    AfterSet(Answered(st, "ok"), text, model, Emb(text, model))

\* embed_single called by a request
SingleEnter(st, text, model) ==
    IF SingleTag(st, text, model) = "raise" THEN Raised(st, "input")
    ELSE IF SingleTag(st, text, model) = "hit"
    THEN Returned(AfterGet(st, text, model), <<Cached(st, text, model)>>)
    ELSE [SingleAsked(st, text, model) EXCEPT !.call.pc = "single_wait"]

SingleAnswer(st, text, model, o) ==
    IF o = "ok"
    THEN Returned(SingleStored(st, text, model), <<Emb(text, model)>>)
    ELSE Raised(Answered(st, o), o)

(***************************************************************************)
(* embed_batch.  Indices are those of Python: texts[0] is the first text.  *)
(***************************************************************************)
\* batch = texts[batch_idx:batch_idx + batch_size]
Batch(cl) ==
    SubSeq(cl.texts, cl.batch_idx + 1, Min(cl.batch_idx + BATCH_SIZE, Len(cl.texts)))

Pair(idx, emb) == [idx |-> idx, emb |-> emb]

\* a cache check that sends every text of the batch to the endpoint
CheckOne_resend(st, i) ==
    [AfterGet(st, Batch(st.call)[i], st.call.model) EXCEPT
        !.call.uncached_texts = Append(@, Batch(st.call)[i]),
        !.call.uncached_indices = Append(@, st.call.batch_idx + (i - 1)),
        !.call.cache_misses = @ + 1]

\* a cache check that counts a text it has already put in the miss set as a
\* hit
CheckOne_dedup(st, i) ==
    IF IsHit(st, Batch(st.call)[i], st.call.model)
          \/ \E j \in 1..Len(st.call.uncached_texts) :
                st.call.uncached_texts[j] = Batch(st.call)[i]
    THEN [AfterGet(st, Batch(st.call)[i], st.call.model) EXCEPT
             !.call.batch_results =
                 Append(@, Pair(st.call.batch_idx + (i - 1),
                                Emb(Batch(st.call)[i], st.call.model))),
             !.call.cache_hits = @ + 1]
    ELSE [AfterGet(st, Batch(st.call)[i], st.call.model) EXCEPT
             !.call.uncached_texts = Append(@, Batch(st.call)[i]),
             !.call.uncached_indices = Append(@, st.call.batch_idx + (i - 1)),
             !.call.cache_misses = @ + 1]

\* one round of `for i, text in enumerate(batch)`
CheckOne(st, i) ==
    LET text == Batch(st.call)[i]
        idx == st.call.batch_idx + (i - 1)
    IN
    IF IsHit(st, text, st.call.model)
    THEN [AfterGet(st, text, st.call.model) EXCEPT
             !.call.batch_results = Append(@, Pair(idx, Cached(st, text, st.call.model))),
             !.call.cache_hits = @ + 1]
    ELSE [AfterGet(st, text, st.call.model) EXCEPT
             !.call.uncached_texts = Append(@, text),
             !.call.uncached_indices = Append(@, idx),
             !.call.cache_misses = @ + 1]

RECURSIVE CheckFrom(_, _)
CheckFrom(st, i) ==
    IF i > Len(Batch(st.call)) THEN st ELSE CheckFrom(CheckOne(st, i), i + 1)

\* one round of `for text, emb_data, idx in zip(uncached_texts, data["data"], ...)`
\* a store loop that keeps the vector and writes nothing to the cache
StoreOne_uncached(st, i) ==
    LET text == st.call.uncached_texts[i]
        idx == st.call.uncached_indices[i]
    IN [st EXCEPT
           !.call.batch_results = Append(@, Pair(idx, Emb(text, st.call.model)))]

StoreOne(st, i) ==
    LET text == st.call.uncached_texts[i]
        idx == st.call.uncached_indices[i]
    IN [AfterSet(st, text, st.call.model, Emb(text, st.call.model)) EXCEPT
           !.call.batch_results = Append(@, Pair(idx, Emb(text, st.call.model)))]

\* the first n rounds of that loop
RECURSIVE StoreFrom(_, _, _)
StoreFrom(st, i, n) ==
    IF i > n THEN st ELSE StoreFrom(StoreOne(st, i), i + 1, n)

\* results.sort(key=lambda x: x[0])
SortByIndex(results) == Arrange(results, [i \in 1..Len(results) |-> results[i].idx])

\* the sort and the return of embed_batch
Finish(st) ==
    LET sorted == SortByIndex(st.call.results)
    IN Returned(Dropped([st EXCEPT !.call.results = sorted]),
                [i \in 1..Len(sorted) |-> sorted[i].emb])

\* a loop that also sleeps after its last batch
EndBatch_sleepy(st) ==
    LET ext == [st EXCEPT !.call.results = @ \o st.call.batch_results]
    IN IF st.call.batch_idx + BATCH_SIZE <= Len(st.call.texts)
       THEN [ext EXCEPT !.call.pc = "batch_sleep"]
       ELSE Finish(ext)

\* results.extend(batch_results), then the delay before the next batch or the end
EndBatch(st) ==
    LET ext == [st EXCEPT !.call.results = @ \o st.call.batch_results]
    IN IF st.call.batch_idx + BATCH_SIZE < Len(st.call.texts)
       THEN [ext EXCEPT !.call.pc = "batch_sleep"]
       ELSE Finish(ext)

\* a batch from its cache check to its first await
EnterBatch(st) ==
    LET checked == CheckFrom([st EXCEPT !.call.batch_results = << >>,
                                        !.call.uncached_texts = << >>,
                                        !.call.uncached_indices = << >>,
                                        !.call.k = 0], 1)
    IN IF Len(checked.call.uncached_texts) > 0
       THEN [Sent(checked, "batch", checked.call.uncached_texts) EXCEPT
                !.call.pc = "batch_wait"]
       ELSE EndBatch(checked)

\* the retry loop: embed_single of the k-th text of the miss set, up to its
\* first await; a text that embed_single rejects gets the zero vector at
\* once and the loop goes on
RECURSIVE RetryFrom(_, _)
RetryFrom(st, k) ==
    IF k > Len(st.call.uncached_texts) THEN EndBatch(st)
    ELSE
    LET text == st.call.uncached_texts[k]
        idx == st.call.uncached_indices[k]
        at == [st EXCEPT !.call.k = k]
        tag == SingleTag(st, text, st.call.model)
    IN IF tag = "raise"
       THEN RetryFrom([at EXCEPT !.call.batch_results =
                          Append(@, Pair(idx, ZeroVector(st.call.model)))], k + 1)
       ELSE IF tag = "hit"
       THEN [AfterGet(at, text, st.call.model) EXCEPT
                !.call.batch_results = Append(@, Pair(idx, Cached(st, text, st.call.model))),
                !.call.pc = "retry_sleep"]
       ELSE [SingleAsked(at, text, st.call.model) EXCEPT !.call.pc = "retry_wait"]

\* the answer to the batch request
BatchAnswer(st, o) ==
    IF o.kind = "ok"
    THEN EndBatch(StoreFrom(Answered(st, "ok"), 1, Len(st.call.uncached_texts)))
    ELSE RetryFrom(StoreFrom(Answered(st, o.kind), 1, o.n), 1)

\* a retry loop that gives up on the first text it cannot embed
RetryAnswer_raise(st, o) ==
    IF o = "ok"
    THEN [SingleStored(st, st.call.uncached_texts[st.call.k], st.call.model) EXCEPT
             !.call.batch_results =
                 Append(@, Pair(st.call.uncached_indices[st.call.k],
                                Emb(st.call.uncached_texts[st.call.k], st.call.model))),
             !.call.pc = "retry_sleep"]
    ELSE Raised(Answered(st, o), o)

\* a retry loop that stores the zero vector it substitutes
RetryAnswer_cachingZero(st, o) ==
    LET text == st.call.uncached_texts[st.call.k]
        idx == st.call.uncached_indices[st.call.k]
    IN IF o = "ok"
       THEN [SingleStored(st, text, st.call.model) EXCEPT
                !.call.batch_results = Append(@, Pair(idx, Emb(text, st.call.model))),
                !.call.pc = "retry_sleep"]
       ELSE RetryFrom([AfterSet(Answered(st, o), text, st.call.model,
                                ZeroVector(st.call.model))
                          EXCEPT !.call.batch_results =
                                     Append(@, Pair(idx, ZeroVector(st.call.model)))],
                      st.call.k + 1)

\* the answer to the request of embed_single inside the retry loop
RetryAnswer(st, o) ==
    LET text == st.call.uncached_texts[st.call.k]
        idx == st.call.uncached_indices[st.call.k]
    IN IF o = "ok"
       THEN [SingleStored(st, text, st.call.model) EXCEPT
                !.call.batch_results = Append(@, Pair(idx, Emb(text, st.call.model))),
                !.call.pc = "retry_sleep"]
       ELSE RetryFrom([Answered(st, o) EXCEPT !.call.batch_results =
                          Append(@, Pair(idx, ZeroVector(st.call.model)))],
                      st.call.k + 1)

(***************************************************************************)
(* The steps of the requests.  A step runs a coroutine from one await to   *)
(* the next; the cache operations inside it are not interleaved with any   *)
(* other request.                                                          *)
(***************************************************************************)
\* the history variables of the cache belong to the specifications of the
\* cache alone and stay as they are here
Commit(p, st) ==
    /\ cache' = st.c
    /\ timestamps' = st.ts
    /\ call' = [call EXCEPT ![p] = st.call]
    /\ prev' = NoPrev
    /\ UNCHANGED <<max_size, ttl_seconds, now, lastOp, ret, evicted, lru, victim,
                   hist, histOK, setAt>>
    /\ UNCHANGED <<retrVars, cache_enabled, docVars>>

Free(p) == call[p].pc = "idle"

Now(p) == [c |-> cache, ts |-> timestamps, call |-> call[p]]

Fresh(op, model) ==
    [c |-> cache, ts |-> timestamps,
     call |-> [IdleCall EXCEPT !.op = op, !.model = OrModel(model)]]

\* the cache holds none of the texts for the model
Cold(texts, model) ==
    \A i \in 1..Len(texts) : _generate_key(texts[i], model) \notin KeysOf(cache)

\* the call that returned last had these arguments and returned embeddings
Follows(op, texts, model) ==
    /\ prev.op = op
    /\ prev.texts = texts
    /\ prev.model = model
    /\ prev.embedded

embed_single(p, text, model) ==
    /\ Free(p)
    /\ Commit(p, SingleEnter([Fresh("embed_single", model) EXCEPT
                                 !.call.text = text,
                                 !.call.cold = Cold(<<text>>, OrModel(model)),
                                 !.call.again =
                                     Follows("embed_single", <<text>>, OrModel(model))],
                             text, OrModel(model)))

SingleResponse(p, o) ==
    /\ call[p].pc = "single_wait"
    /\ Commit(p, SingleAnswer(Now(p), call[p].text, call[p].model, o))

embed_batch(p, texts, model) ==
    /\ Free(p)
    /\ IF texts = << >>
       THEN Commit(p, Returned([Fresh("embed_batch", None) EXCEPT
                                   !.call.model = ""], << >>))
       ELSE Commit(p, EnterBatch([Fresh("embed_batch", model) EXCEPT
                                     !.call.texts = texts,
                                     !.call.cold = Cold(texts, OrModel(model)),
                                    !.call.again =
                                        Follows("embed_batch", texts, OrModel(model))]))

BatchResponse(p, o) ==
    /\ call[p].pc = "batch_wait"
    /\ Commit(p, BatchAnswer(Now(p), o))

RetryResponse(p, o) ==
    /\ call[p].pc = "retry_wait"
    /\ Commit(p, RetryAnswer(Now(p), o))

\* await asyncio.sleep(0.3) is over
RetrySleep(p) ==
    /\ call[p].pc = "retry_sleep"
    /\ Commit(p, RetryFrom(Now(p), call[p].k + 1))

\* await asyncio.sleep(0.5) is over: the next batch
BatchSleep(p) ==
    /\ call[p].pc = "batch_sleep"
    /\ Commit(p, EnterBatch([Now(p) EXCEPT !.call.batch_idx = @ + BATCH_SIZE]))

\* what a call that has returned leaves behind: its arguments, its counts
\* and whether every vector it returned is an embedding of its text
Summary(cl) ==
    [op |-> cl.op,
     texts |-> IF cl.op = "embed_single" THEN <<cl.text>> ELSE cl.texts,
     model |-> cl.model, hits |-> cl.cache_hits, misses |-> cl.cache_misses,
     embedded |-> /\ cl.outcome = "returned"
                  /\ \A i \in 1..Len(cl.ret) : cl.ret[i] # ZeroVector(cl.model)]

\* the caller has taken the result or the error of the call
Return(p) ==
    /\ call[p].pc = "done"
    /\ call' = [call EXCEPT ![p] = IdleCall]
    /\ prev' = Summary(call[p])
    /\ UNCHANGED <<cacheVars, retrVars, cache_enabled, docVars>>

\* POST /cache/clear: get_cache().clear()
clear_cache ==
    /\ cache' = << >>
    /\ timestamps' = << >>
    /\ prev' = NoPrev
    /\ UNCHANGED <<max_size, ttl_seconds, now, lastOp, ret, evicted, lru, victim,
                   hist, histOK, setAt>>
    /\ UNCHANGED <<retrVars, cache_enabled, call, docVars>>

(***************************************************************************)
(* One request at a time, the cache cleared in between and while the       *)
(* request awaits.  The clock stands still, as in SpecLru: an entry leaves *)
(* the cache by eviction or by clear_cache.                                *)
(***************************************************************************)
InitEmbed ==
    /\ InitWith(BATCH_SIZE)
    /\ max_size >= BATCH_SIZE
    /\ RetrIdle
    /\ cache_enabled \in BOOLEAN
    /\ call = [p \in Procs |-> IdleCall]
    /\ prev = NoPrev
    /\ DocIdle

EmbedOne == \E t \in SingleTexts, m \in ModelArgs : embed_single(1, t, m)

EmbedOneAnswer == \E o \in SingleOutcomes : SingleResponse(1, o)

EmbedMany == \E ts \in BatchInputs, m \in ModelArgs : embed_batch(1, ts, m)

EmbedManyAnswer == \E o \in BatchOutcomes(call[1].uncached_texts) : BatchResponse(1, o)

EmbedRetryAnswer == \E o \in SingleOutcomes : RetryResponse(1, o)

EmbedRetrySleep == RetrySleep(1)

EmbedBatchSleep == BatchSleep(1)

EmbedReturn == Return(1)

NextEmbed ==
    \/ EmbedOne \/ EmbedOneAnswer
    \/ EmbedMany \/ EmbedManyAnswer \/ EmbedRetryAnswer
    \/ EmbedRetrySleep \/ EmbedBatchSleep \/ EmbedReturn
    \/ clear_cache

SpecEmbed == InitEmbed /\ [][NextEmbed]_vars

(***************************************************************************)
(* Concurrent requests.  Every endpoint is a coroutine of one event loop:  *)
(* a request runs from one await to the next without interruption, and at *)
(* an await any other request may run.  Request 1 is an /embed/batch       *)
(* request, request 2 an /embed/single request; /cache/clear has no       *)
(* await.  The cache is as small as a batch, so that requests evict each   *)
(* other's entries.                                                        *)
(***************************************************************************)
\* the list the batch request carries: MaxTexts texts, more than one batch
ConcInputs == {[i \in 1..MaxTexts |-> IF i % 2 = 1 THEN "ta" ELSE "tb"]}

\* what the endpoint does with a request: it answers or it fails
ConcOutcomes == {"ok", "transient"}

InitConc ==
    /\ InitWith(BATCH_SIZE)
    /\ max_size = BATCH_SIZE
    /\ ttl_seconds = MaxTtl
    /\ RetrIdle
    /\ cache_enabled = TRUE
    /\ call = [p \in Procs |-> IdleCall]
    /\ prev = NoPrev
    /\ DocIdle

ConcMany == \E ts \in ConcInputs : embed_batch(1, ts, None)

ConcManyAnswer == \E o \in ConcOutcomes : BatchResponse(1, [kind |-> o, n |-> 0])

ConcRetryAnswer == \E o \in ConcOutcomes : RetryResponse(1, o)

ConcRetrySleep == RetrySleep(1)

ConcBatchSleep == BatchSleep(1)

ConcOne == \E t \in Texts, m \in ModelArgs : embed_single(2, t, m)

ConcOneAnswer == \E o \in ConcOutcomes : SingleResponse(2, o)

ConcReturn == \E p \in Procs : Return(p)

NextConc ==
    \/ ConcMany \/ ConcManyAnswer \/ ConcRetryAnswer
    \/ ConcRetrySleep \/ ConcBatchSleep
    \/ ConcOne \/ ConcOneAnswer \/ ConcReturn
    \/ clear_cache

SpecConc == InitConc /\ [][NextConc]_vars

(***************************************************************************)
(* QueryRewriter.  A text is the sequence of its words, so that            *)
(* `kw in text` can be computed; NoText is None where a text is expected.  *)
(* The words stand for those of the source: "and" for "和", "with" for    *)
(* "与", "or" for "或者", "as_well_as" for "以及", "difference" for       *)
(* "区别", "contrast" for "对比", "compare" for "比较".  The step names  *)
(* are "normalized" for "标准化完成", "normalize_failed" for              *)
(* "标准化失败", "decomposing" for "使用查询分解", "decompose_failed"    *)
(* for "查询分解失败", "expanding" for "使用查询扩展", "expand_failed"   *)
(* for "查询扩展失败" and "rewrite_failed" for "查询重写失败".           *)
(***************************************************************************)
Keywords == {"and", "with", "or", "as_well_as", "difference", "contrast", "compare"}

\* the queries the endpoints pass: request.message and request.query, strings
Queries == {<<"x">>, <<"y">>, <<"x", "and", "y">>, <<"x", "y", "difference">>}

\* what _call_llm returns: the stripped content of the answer, or "" when
\* the request failed in any way
LlmAnswers ==
    {<< >>, <<"x">>, <<"y">>, <<"x", "and", "y">>, <<"1.", "x", "\n", "2.", "y">>,
     <<"1.", "\n", "2.">>}

\* how an awaited helper ends: with the text _call_llm returned, or with an
\* exception that reaches the handler of rewrite
HelperOutcomes == {[raised |-> FALSE, text |-> a] : a \in LlmAnswers}
                     \cup {[raised |-> TRUE, text |-> << >>]}

\* the truth value of a string: the empty string is falsy
Truthy(text) == text # << >> /\ text # NoText

\* `kw in query_for_analysis` raises TypeError on a query that is no string
ClassifyRaises(text) == text = NoText

\* any(kw in query_for_analysis for kw in [...])
is_compound(text) == \E i \in 1..Len(text) : text[i] \in Keywords

\* " ".join(decomposed.split("\n")).replace("1.", "").replace("2.", "").replace("3.", "")
RECURSIVE Merged(_)
Merged(text) ==
    IF text = << >> THEN << >>
    ELSE IF Head(text) \in {"1.", "2.", "3."} THEN Merged(Tail(text))
    ELSE IF Head(text) = "\n" THEN <<" ">> \o Merged(Tail(text))
    ELSE <<Head(text)>> \o Merged(Tail(text))

\* `not text or not text.strip()`: the text embed_single refuses; a text is
\* blank when nothing but the spaces between its lines is left of it
Blank(text) == \A i \in 1..Len(text) : text[i] = " "

\* result = {...}: the result as rewrite initializes it
FirstResult(query) ==
    [IdleRewrite EXCEPT !.query = query, !.original_query = query,
                        !.final_query = query, !.query_type = "original"]

\* except Exception: the result is marked and returned
Fallback(r, stage) ==
    [r EXCEPT !.pc = "done", !.outcome = "returned", !.query_type = "fallback",
              !.error = TRUE, !.steps = Append(@, "rewrite_failed"),
              !.failed = stage]

Finished(r) == [r EXCEPT !.pc = "done", !.outcome = "returned"]

\* an awaited helper begins: it sends one request to the LLM
Asking(r, stage) == [r EXCEPT !.pc = stage, !.llm = @ + 1]

\* a rewriter that normalizes whether enabled or not
Begin_always(r) == Asking(r, "normalize")

\* `if not self.enabled: return result`, else the await of _normalize_query
Begin(r) == IF ~enabled THEN Finished(r) ELSE Asking(r, "normalize")

\* a normalization whose failure leaves no step behind
Normalized_silent(r, text) ==
    IF Truthy(text)
    THEN [r EXCEPT !.normalized_query = text, !.final_query = text,
                   !.steps = Append(@, "normalized")]
    ELSE r

\* the result after _normalize_query has returned text
Normalized(r, text) ==
    IF Truthy(text)
    THEN [r EXCEPT !.normalized_query = text, !.final_query = text,
                   !.steps = Append(@, "normalized")]
    ELSE [r EXCEPT !.steps = Append(@, "normalize_failed")]

\* a classification that looks at the user's query
Classified_byQuery(r) ==
    IF ClassifyRaises(r.query) THEN Fallback(r, "classify")
    ELSE IF \E i \in 1..Len(r.query) : r.query[i] \in Keywords
    THEN Asking([r EXCEPT !.query_type = "decomposition",
                          !.steps = Append(@, "decomposing")], "decompose")
    ELSE Asking([r EXCEPT !.query_type = "expansion",
                          !.steps = Append(@, "expanding")], "expand")

\* the classification and the branch taken, up to the await of the helper
Classified(r) ==
    IF ClassifyRaises(r.final_query) THEN Fallback(r, "classify")
    ELSE IF is_compound(r.final_query)
    THEN Asking([r EXCEPT !.query_type = "decomposition",
                          !.steps = Append(@, "decomposing")], "decompose")
    ELSE Asking([r EXCEPT !.query_type = "expansion",
                          !.steps = Append(@, "expanding")], "expand")

\* the result after _decompose_query has returned text
Decomposed(r, text) ==
    IF Truthy(text)
    THEN Finished([r EXCEPT !.sub_queries = text, !.final_query = Merged(text)])
    ELSE Finished([r EXCEPT !.steps = Append(@, "decompose_failed")])

\* the result after _expand_query has returned text
Expanded(r, text) ==
    IF Truthy(text)
    THEN Finished([r EXCEPT !.final_query = text])
    ELSE Finished([r EXCEPT !.steps = Append(@, "expand_failed")])

RewriteStep(r) ==
    /\ rw' = r
    /\ UNCHANGED <<cacheVars, retrVars, embVars, enabled, storeVars>>

\* a caller awaits rewrite(query); the result of the call before is gone
rewrite(query) ==
    /\ rw.pc \in {"idle", "done"}
    /\ RewriteStep(Begin(FirstResult(query)))

\* the call remembers how each of its helpers ended
Heard(r, o) == [r EXCEPT !.heard = Append(@, o)]

\* _normalize_query has ended
NormalizeEnds(o) ==
    /\ rw.pc = "normalize"
    /\ RewriteStep(IF o.raised THEN Fallback(Heard(rw, o), "normalize")
                   ELSE Classified(Normalized(Heard(rw, o), o.text)))

\* _decompose_query has ended
DecomposeEnds(o) ==
    /\ rw.pc = "decompose"
    /\ RewriteStep(IF o.raised THEN Fallback(Heard(rw, o), "decompose")
                   ELSE Decomposed(Heard(rw, o), o.text))

\* _expand_query has ended
ExpandEnds(o) ==
    /\ rw.pc = "expand"
    /\ RewriteStep(IF o.raised THEN Fallback(Heard(rw, o), "expand")
                   ELSE Expanded(Heard(rw, o), o.text))

InitRewrite ==
    /\ InitWith(MaxCap)
    /\ max_size = MaxCap
    /\ ttl_seconds = MaxTtl
    /\ RetrIdle
    /\ EmbIdle
    /\ enabled \in BOOLEAN
    /\ rw = IdleRewrite
    /\ StoreIdle

Rewrite == \E q \in Queries : rewrite(q)

Normalize == \E o \in HelperOutcomes : NormalizeEnds(o)

Decompose == \E o \in HelperOutcomes : DecomposeEnds(o)

Expand == \E o \in HelperOutcomes : ExpandEnds(o)

NextRewrite == Rewrite \/ Normalize \/ Decompose \/ Expand

SpecRewrite == InitRewrite /\ [][NextRewrite]_vars

(***************************************************************************)
(* TextChunker and PDFProcessor: the writers of table document_chunks.     *)
(*                                                                         *)
(* The text of a page is modelled by the number of documents the splitter  *)
(* makes of it; 0 stands for a blank page (text.strip() is empty).  A      *)
(* chunk keeps its chunk_index and the page_number of its metadata; its    *)
(* content and vector are not modelled.  A row of document_chunks is       *)
(* [pdf_id, chunk_index, page_number]; its id is a fresh uuid4, so the     *)
(* table is a bag of such rows.                                            *)
(***************************************************************************)

\* TextChunker.chunk_text: the documents of one text, numbered from 0
chunk_text(text, page_number) ==
    [n \in 1..text |-> [chunk_index |-> n - 1, page_number |-> page_number]]

\* TextChunker.chunk_by_pages: the chunks of every non-blank page, appended
RECURSIVE chunk_by_pages(_)
chunk_by_pages(page_texts) ==
    IF page_texts = << >> THEN << >>
    ELSE LET page_data == Head(page_texts)
             chunks == IF page_data.text = 0 THEN << >>
                       ELSE chunk_text(page_data.text, page_data.page)
         IN  chunks \o chunk_by_pages(Tail(page_texts))

\* PDFProcessor.parse_pdf: page_texts of a file, pages numbered from 1
PageTexts(file) == [n \in 1..Len(file) |-> [page |-> n, text |-> file[n]]]

\* files given to the chunker alone
ChunkFiles == UNION {[1..n -> 0..MaxParts] : n \in 1..MaxPages}

\* one iteration of the page loop of chunk_by_pages on a blank page
SkipPage ==
    LET j == job[1] IN
    /\ j.op = "chunk" /\ j.pc = "pages" /\ j.i <= Len(j.page_texts)
    /\ j.page_texts[j.i].text = 0
    /\ job' = [job EXCEPT ![1].i = j.i + 1]
    /\ UNCHANGED <<cacheVars, retrVars, embVars, enabled, rw, pdfs, chunk_rows, requests>>

\* one iteration of the page loop on a page with text
ChunkPage ==
    LET j == job[1]
        page_data == j.page_texts[j.i]
    IN
    /\ j.op = "chunk" /\ j.pc = "pages" /\ j.i <= Len(j.page_texts)
    /\ page_data.text # 0
    /\ job' = [job EXCEPT ![1].i = j.i + 1,
                          ![1].chunks = j.chunks \o chunk_text(page_data.text, page_data.page)]
    /\ UNCHANGED <<cacheVars, retrVars, embVars, enabled, rw, pdfs, chunk_rows, requests>>

\* chunk_by_pages returns all_chunks
ChunkReturn ==
    LET j == job[1] IN
    /\ j.op = "chunk" /\ j.pc = "pages" /\ j.i > Len(j.page_texts)
    /\ job' = [job EXCEPT ![1].pc = "done", ![1].outcome = "returned"]
    /\ UNCHANGED <<cacheVars, retrVars, embVars, enabled, rw, pdfs, chunk_rows, requests>>

InitChunk ==
    /\ InitWith(MaxCap)
    /\ max_size = MaxCap
    /\ ttl_seconds = MaxTtl
    /\ RetrIdle
    /\ EmbIdle
    /\ enabled = TRUE
    /\ rw = IdleRewrite
    /\ pdfs = [d \in Docs |-> NoRow]
    /\ chunk_rows = EmptyBag
    /\ requests = 0
    /\ \E file \in ChunkFiles :
          job = [p \in Procs |->
                   IF p = 1
                   THEN [IdleJob EXCEPT !.op = "chunk", !.pc = "pages",
                                        !.page_texts = PageTexts(file), !.i = 1]
                   ELSE IdleJob]

NextChunk == SkipPage \/ ChunkPage \/ ChunkReturn

SpecChunk == InitChunk /\ [][NextChunk]_vars

(***************************************************************************)
(* The endpoints upload, reprocess and delete (api/v1/pdf.py) with         *)
(* PDFProcessor.process_pdf, one step per database statement: every        *)
(* db.execute is a statement of its own (Database.execute opens no         *)
(* transaction) and an await at which another request may run.  Parsing,   *)
(* chunking and embedding touch no table and are one step.  A statement    *)
(* on document_chunks or a status update may raise.                        *)
(***************************************************************************)

\* files that are uploaded, per page the number of chunks of its text: a
\* file of one page and a file of MaxFilePages pages, each page one chunk
StoreFiles == {[n \in 1..m |-> 1] : m \in {1, MaxFilePages}}

\* the row of pdfs exists
HasRow(d) == pdfs[d].status \notin {"none", "gone"}

\* the rows of document_chunks that are not of document d
OtherRows(rows, d) ==
    [r \in {x \in DOMAIN rows : x.pdf_id # d} |-> rows[r]]

\* the rows of document_chunks of document d
RowsOf(rows, d) ==
    [r \in {x \in DOMAIN rows : x.pdf_id = d} |-> rows[r]]

\* the row _save_chunks_to_db inserts for a chunk
ChunkRow(d, chunk) ==
    [pdf_id |-> d, chunk_index |-> chunk.chunk_index, page_number |-> chunk.page_number]

\* UPDATE pdfs SET status = ... WHERE id = d (no row: nothing is updated)
SetStatus(d, status) ==
    IF HasRow(d) THEN [pdfs EXCEPT ![d].status = status] ELSE pdfs

\* UPDATE pdfs SET status = 'ready', "totalChunks" = len(chunks) WHERE id = d
SetReady(d, total_chunks) ==
    IF HasRow(d)
    THEN [pdfs EXCEPT ![d].status = "ready", ![d].totalChunks = total_chunks]
    ELSE pdfs

\* the request has ended: what it returns and what it wrote is kept
Ended(j, how) ==
    [j EXCEPT !.pc = "done", !.outcome = how, !.page_texts = << >>,
              !.chunks = << >>, !.i = 0, !.k = 0]

StoreStep(p, j) ==
    /\ job' = [job EXCEPT ![p] = j]
    /\ UNCHANGED <<cacheVars, retrVars, embVars, enabled, rw>>

JobFree(p) == job[p].pc \in {"idle", "done"}

\* POST /upload: a new id, INSERT INTO pdfs with status processing
upload(p, d, file) ==
    /\ JobFree(p)
    /\ requests < MaxRequests
    /\ requests' = requests + 1
    /\ pdfs[d].status = "none"
    /\ pdfs' = [pdfs EXCEPT ![d] = [status |-> "processing", pages |-> file,
                                    totalChunks |-> 0]]
    /\ StoreStep(p, [IdleJob EXCEPT !.op = "upload", !.pc = "process", !.pdf_id = d,
                                    !.page_texts = PageTexts(file)])
    /\ UNCHANGED chunk_rows

\* POST /{pdf_id}/reprocess: the row and the file are found
reprocess(p, d) ==
    /\ JobFree(p)
    /\ requests < MaxRequests
    /\ requests' = requests + 1
    /\ HasRow(d)
    /\ StoreStep(p, [IdleJob EXCEPT !.op = "reprocess", !.pc = "delete_chunks", !.pdf_id = d,
                                    !.page_texts = PageTexts(pdfs[d].pages)])
    /\ UNCHANGED <<pdfs, chunk_rows>>

\* DELETE /{pdf_id}: the row is found
delete(p, d) ==
    /\ JobFree(p)
    /\ requests < MaxRequests
    /\ requests' = requests + 1
    /\ HasRow(d)
    /\ StoreStep(p, [IdleJob EXCEPT !.op = "delete", !.pc = "delete_chunks", !.pdf_id = d])
    /\ UNCHANGED <<pdfs, chunk_rows>>

\* PDFProcessor.delete_pdf_chunks: DELETE FROM document_chunks WHERE pdf_id
delete_pdf_chunks(p, ok) ==
    LET j == job[p] IN
    /\ j.pc = "delete_chunks"
    /\ IF ok
       THEN /\ chunk_rows' = OtherRows(chunk_rows, j.pdf_id)
            /\ StoreStep(p, [j EXCEPT !.pc = IF j.op = "delete" THEN "delete_pdf"
                                             ELSE "mark_processing"])
       ELSE /\ chunk_rows' = chunk_rows
            /\ StoreStep(p, Ended(j, "error"))
    /\ UNCHANGED <<pdfs, requests>>

\* PDFProcessor.reprocess_pdf: UPDATE pdfs SET status = 'processing'
MarkProcessing(p) ==
    LET j == job[p] IN
    /\ j.pc = "mark_processing"
    /\ pdfs' = SetStatus(j.pdf_id, "processing")
    /\ StoreStep(p, [j EXCEPT !.pc = "process"])
    /\ UNCHANGED <<chunk_rows, requests>>

\* delete endpoint: DELETE FROM pdfs WHERE id, then the file is removed
DeletePdf(p) ==
    LET j == job[p] IN
    /\ j.pc = "delete_pdf"
    /\ pdfs' = [pdfs EXCEPT ![j.pdf_id] = [NoRow EXCEPT !.status = "gone"]]
    /\ StoreStep(p, Ended(j, "success"))
    /\ UNCHANGED <<chunk_rows, requests>>

\* process_pdf: parse_pdf, chunk_by_pages and embed_batch; the file must
\* still be there to be parsed
Process(p, ok) ==
    LET j == job[p] IN
    /\ j.pc = "process"
    /\ ok => pdfs[j.pdf_id].status # "gone"
    /\ StoreStep(p, IF ok
                    THEN [j EXCEPT !.pc = "save", !.k = 1,
                                   !.chunks = chunk_by_pages(j.page_texts)]
                    ELSE [j EXCEPT !.pc = "mark_failed"])
    /\ UNCHANGED <<pdfs, chunk_rows, requests>>

\* a failed insert that takes the rows of the other documents with it
Insert_sweeping(p, ok) ==
    LET j == job[p] IN
    /\ j.pc = "save" /\ j.k <= Len(j.chunks)
    /\ ok => HasRow(j.pdf_id)
    /\ IF ok
       THEN /\ chunk_rows' = chunk_rows (+) SetToBag({ChunkRow(j.pdf_id, j.chunks[j.k])})
            /\ StoreStep(p, [j EXCEPT !.k = j.k + 1])
       ELSE /\ chunk_rows' = RowsOf(chunk_rows, j.pdf_id)
            /\ StoreStep(p, [j EXCEPT !.broke = j.k, !.pc = "mark_failed"])
    /\ UNCHANGED <<pdfs, requests>>

\* _save_chunks_to_db: the INSERT of chunk k; pdf_id is a foreign key, so
\* the insert raises when the row of pdfs is gone
Insert(p, ok) ==
    LET j == job[p] IN
    /\ j.pc = "save" /\ j.k <= Len(j.chunks)
    /\ ok => HasRow(j.pdf_id)
    /\ IF ok
       THEN /\ chunk_rows' = chunk_rows (+) SetToBag({ChunkRow(j.pdf_id, j.chunks[j.k])})
            /\ StoreStep(p, [j EXCEPT !.k = j.k + 1])
       ELSE /\ chunk_rows' = chunk_rows
            /\ StoreStep(p, [j EXCEPT !.broke = j.k, !.pc = "mark_failed"])
    /\ UNCHANGED <<pdfs, requests>>

\* process_pdf: all chunks are saved, UPDATE pdfs SET status = 'ready'
MarkReady(p, ok) ==
    LET j == job[p] IN
    /\ j.pc = "save" /\ j.k > Len(j.chunks)
    /\ IF ok
       THEN /\ pdfs' = SetReady(j.pdf_id, Len(j.chunks))
            /\ StoreStep(p, Ended([j EXCEPT !.wrote = "ready"], "success"))
       ELSE /\ pdfs' = pdfs
            /\ StoreStep(p, [j EXCEPT !.pc = "mark_failed"])
    /\ UNCHANGED <<chunk_rows, requests>>

\* the request after the status update of the handler of process_pdf: the
\* upload endpoint catches the ValueError and updates the status itself,
\* the reprocess endpoint answers 500
AfterHandler(j) ==
    IF j.op = "upload" THEN [j EXCEPT !.pc = "mark_failed_again"]
    ELSE Ended(j, "error")

\* process_pdf, except branch: UPDATE pdfs SET status = 'failed', itself in
\* a try whose except only logs; then ValueError is raised
MarkFailed(p, ok) ==
    LET j == job[p] IN
    /\ j.pc = "mark_failed"
    /\ IF ok
       THEN /\ pdfs' = SetStatus(j.pdf_id, "failed")
            /\ StoreStep(p, AfterHandler([j EXCEPT !.wrote = "failed"]))
       ELSE /\ pdfs' = pdfs
            /\ StoreStep(p, AfterHandler([j EXCEPT !.lost = j.lost + 1]))
    /\ UNCHANGED <<chunk_rows, requests>>

\* upload endpoint, except branch: UPDATE pdfs SET status = 'failed'
MarkFailedAgain(p, ok) ==
    LET j == job[p] IN
    /\ j.pc = "mark_failed_again"
    /\ IF ok
       THEN /\ pdfs' = SetStatus(j.pdf_id, "failed")
            /\ StoreStep(p, Ended([j EXCEPT !.wrote = "failed"], "failed"))
       ELSE /\ pdfs' = pdfs
            /\ StoreStep(p, Ended([j EXCEPT !.lost = j.lost + 1], "error"))
    /\ UNCHANGED <<chunk_rows, requests>>

InitStore ==
    /\ InitWith(MaxCap)
    /\ max_size = MaxCap
    /\ ttl_seconds = MaxTtl
    /\ RetrIdle
    /\ EmbIdle
    /\ enabled = TRUE
    /\ rw = IdleRewrite
    /\ StoreIdle

Upload == \E p \in Procs, d \in Docs, file \in StoreFiles : upload(p, d, file)

Reprocess == \E p \in Procs, d \in Docs : reprocess(p, d)

Delete == \E p \in Procs, d \in Docs : delete(p, d)

DeleteChunks == \E p \in Procs, ok \in BOOLEAN : delete_pdf_chunks(p, ok)

StatusProcessing == \E p \in Procs : MarkProcessing(p)

RemovePdf == \E p \in Procs : DeletePdf(p)

Parse == \E p \in Procs, ok \in BOOLEAN : Process(p, ok)

SaveChunk == \E p \in Procs, ok \in BOOLEAN : Insert(p, ok)

StatusReady == \E p \in Procs, ok \in BOOLEAN : MarkReady(p, ok)

StatusFailed == \E p \in Procs, ok \in BOOLEAN : MarkFailed(p, ok)

StatusFailedAgain == \E p \in Procs, ok \in BOOLEAN : MarkFailedAgain(p, ok)

NextStore ==
    \/ Upload
    \/ Reprocess
    \/ Delete
    \/ DeleteChunks
    \/ StatusProcessing
    \/ RemovePdf
    \/ Parse
    \/ SaveChunk
    \/ StatusReady
    \/ StatusFailed
    \/ StatusFailedAgain

SpecStore == InitStore /\ [][NextStore]_vars

(***************************************************************************)
(* chat_with_pdf (api/v1/chat.py), one step per await.  The row of pdfs    *)
(* is read once; other requests, and the service that shares the table,    *)
(* write its status meanwhile.  calls lists the calls the request has      *)
(* issued to the rewriter, the retriever and the LLM; outcome is the HTTP   *)
(* status of the answer.                                                   *)
(***************************************************************************)

\* values of pdfs.status: those this service writes and one it does not
Statuses == {"processing", "ready", "failed", "archived"}

\* the checks of pdf_record and pdf_status: the HTTP status they raise, 200
\* when the request goes on
StatusCheck_lenient(row_status) ==
    IF row_status \in {"none", "gone"} THEN 404
    ELSE IF row_status = "processing" THEN 400
    ELSE IF row_status = "failed" THEN 400
    ELSE 200

StatusCheck(row_status) ==
    IF row_status \in {"none", "gone"} THEN 404
    ELSE IF row_status = "processing" THEN 400
    ELSE IF row_status = "failed" THEN 400
    ELSE IF row_status # "ready" THEN 400
    ELSE 200

ChatStep(p, j) ==
    /\ job' = [job EXCEPT ![p] = j]
    /\ UNCHANGED <<cacheVars, retrVars, embVars, enabled, rw, pdfs, chunk_rows, requests>>

\* POST /chat: the request is received and awaits db.fetchrow
chat(p, d) ==
    /\ JobFree(p)
    /\ ChatStep(p, [IdleJob EXCEPT !.op = "chat", !.pc = "fetch", !.pdf_id = d])

\* fetchrow answers: the checks run and, when they pass, rewrite is called
Fetched(p, ok) ==
    LET j == job[p]
        row_status == pdfs[j.pdf_id].status
        code == StatusCheck(row_status)
    IN
    /\ j.pc = "fetch"
    /\ ChatStep(p, IF ~ok THEN [j EXCEPT !.pc = "done", !.outcome = 500]
                    ELSE IF code # 200
                    THEN [j EXCEPT !.pc = "done", !.outcome = code, !.seen = row_status]
                    ELSE [j EXCEPT !.pc = "rewriting", !.seen = row_status,
                                   !.calls = <<"rewrite">>])

\* rewrite returns (it raises no Exception): smart_retrieval is called
Rewritten(p) ==
    LET j == job[p] IN
    /\ j.pc = "rewriting"
    /\ ChatStep(p, [j EXCEPT !.pc = "retrieving", !.calls = Append(j.calls, "retrieval")])

\* smart_retrieval returns or raises (chunks = []): the LLM is called
Retrieved(p) ==
    LET j == job[p] IN
    /\ j.pc = "retrieving"
    /\ ChatStep(p, [j EXCEPT !.pc = "answering", !.calls = Append(j.calls, "llm")])

\* llm_service.chat returns or raises
LlmAnswered(p, ok) ==
    LET j == job[p] IN
    /\ j.pc = "answering"
    /\ ChatStep(p, [j EXCEPT !.pc = "done", !.outcome = IF ok THEN 200 ELSE 500])

\* another request or service writes the status of a document, creates its
\* row or deletes it
StatusWritten(d, row_status) ==
    /\ pdfs[d].status # row_status
    /\ pdfs' = [pdfs EXCEPT ![d].status = row_status]
    /\ UNCHANGED <<cacheVars, retrVars, embVars, enabled, rw, chunk_rows, job, requests>>

InitChat ==
    /\ InitWith(MaxCap)
    /\ max_size = MaxCap
    /\ ttl_seconds = MaxTtl
    /\ RetrIdle
    /\ EmbIdle
    /\ enabled = TRUE
    /\ rw = IdleRewrite
    /\ StoreIdle

Chat == \E p \in Procs, d \in Docs : chat(p, d)

ChatFetched == \E p \in Procs, ok \in BOOLEAN : Fetched(p, ok)

ChatRewritten == \E p \in Procs : Rewritten(p)

ChatRetrieved == \E p \in Procs : Retrieved(p)

ChatAnswered == \E p \in Procs, ok \in BOOLEAN : LlmAnswered(p, ok)

StatusChange == \E d \in Docs, row_status \in Statuses \cup {"gone"} : StatusWritten(d, row_status)

NextChat ==
    \/ Chat
    \/ ChatFetched
    \/ ChatRewritten
    \/ ChatRetrieved
    \/ ChatAnswered
    \/ StatusChange

SpecChat == InitChat /\ [][NextChat]_vars

(***************************************************************************)
(* Claims about MemoryCache.                                               *)
(***************************************************************************)

\* C7: a get of (t, m) that directly follows set(t, m, v), with no clock
\* advance and no other operation in between, returns v, whatever get, set
\* and clear operations came before the set.
C7_GetAfterSet ==
    (lastOp.op = "get" /\ lastOp.val # None) => ret = lastOp.val

C7_Witness ==
    /\ lastOp.op = "get"
    /\ lastOp.val # None
    /\ ret = lastOp.val
    /\ Len(cache) = max_size
    /\ now > 0

\* C8: a get on a stored key whose last set is more than ttl_seconds ago
\* returns None and removes the entry and its timestamp; in any other step an
\* expired entry stays stored unless the step is a set that evicts it or a
\* clear.
C8_LazyExpiry ==
    [][/\ (/\ lastOp'.op = "get"
           /\ lastOp'.key \in KeysOf(cache)
           /\ now - setAt[lastOp'.key] > ttl_seconds)
          => (/\ ret' = None
              /\ lastOp'.key \notin KeysOf(cache')
              /\ lastOp'.key \notin DOMAIN timestamps')
       /\ \A k \in KeysOf(cache) :
             (/\ now - setAt[k] > ttl_seconds
              /\ ~(lastOp'.op = "get" /\ lastOp'.key = k)
              /\ ~(lastOp'.op = "set" /\ evicted' = k)
              /\ lastOp'.op # "clear")
             => (k \in KeysOf(cache') /\ k \in DOMAIN timestamps' /\ total_keys' >= 1)
      ]_vars

C8_Witness ==
    /\ lastOp.op = "get"
    /\ lastOp.branch = "expired"
    /\ ret = None
    /\ lastOp.key \notin KeysOf(cache)
    /\ \E k \in KeysOf(cache) : now - setAt[k] > ttl_seconds

\* C9: after max_size + 1 sets of distinct keys into an empty cache, with no
\* get in between and no expiry, the first key is gone and exactly the last
\* max_size keys are stored, each one returned by get with the value set.
C9_InsertBeyondCapacity ==
    (histOK /\ Len(hist) = max_size + 1) =>
        /\ hist[1].key \notin KeysOf(cache)
        /\ KeysOf(cache) = {hist[i].key : i \in 2..Len(hist)}
        /\ \A i \in 2..Len(hist) :
              GetRet(cache, timestamps, now, ttl_seconds, hist[i].key) = hist[i].val

C9_Witness ==
    /\ histOK
    /\ Len(hist) = max_size + 1
    /\ max_size >= 2
    /\ Len(cache) = max_size

\* C10: the entry removed by a set performed at capacity is the least
\* recently used one, a use being a get that hits the entry or a set of its
\* key (first insertion or overwrite).
C10_EvictsLeastRecentlyUsed ==
    (lastOp.op = "set" /\ lastOp.branch = "evict") => evicted = victim

\* C31: with max_size >= 1 the number of stored entries never exceeds
\* max_size, whatever gets, sets (inserting, overwriting, evicting) and
\* clears happen and whatever expires.
C31_SizeWithinCapacity == max_size >= 1 => Len(cache) <= max_size

C31_Witness ==
    /\ lastOp.op = "set"
    /\ lastOp.branch = "evict"
    /\ evicted # lastOp.key
    /\ Len(cache) = max_size
    /\ max_size >= 2

\* C38: a get that hits leaves every timestamp as it was, so a get hits
\* exactly while the last set of its key is at most ttl_seconds ago, however
\* often the key was read since; a set of the key stamps it with the time of
\* the set.
C38_GetKeepsTimestamp ==
    [][/\ (lastOp'.op = "get" /\ lastOp'.branch = "hit") => timestamps' = timestamps
       /\ lastOp'.op = "get" =>
             (lastOp'.branch = "hit" <=>
                 /\ lastOp'.key \in KeysOf(cache)
                 /\ now - setAt[lastOp'.key] <= ttl_seconds)
       /\ lastOp'.op = "set" => timestamps'[lastOp'.key] = now
      ]_vars

C38_Witness ==
    /\ lastOp.op = "get"
    /\ lastOp.branch = "hit"
    /\ timestamps[lastOp.key] < now
    /\ Len(cache) >= 2

\* C39: a set on a key that is already stored leaves the set of stored keys
\* as it was, also when the cache is at capacity.
C39_OverwriteKeepsKeys ==
    [][(lastOp'.op = "set" /\ lastOp'.key \in KeysOf(cache))
          => KeysOf(cache') = KeysOf(cache)]_vars

\* C40: _cache and _timestamps have the same keys in every reachable state.
C40_SameKeys == DOMAIN timestamps = KeysOf(cache)

C40_Witness ==
    /\ lastOp.op = "get"
    /\ lastOp.branch = "expired"
    /\ cache # << >>
    /\ DOMAIN timestamps = KeysOf(cache)

(***************************************************************************)
(* Claims about VectorRetriever.                                           *)
(***************************************************************************)
InSeq(x, s) == \E i \in 1..Len(s) : s[i] = x

SmartDone == pc = "done" /\ req.op = "smart"

\* the call raised because the query embedding of its last ranked tier failed
EmbeddingFailed ==
    /\ outcome = "raised"
    /\ attempted # << >>
    /\ attempted[Len(attempted)] \in {1, 2}
    /\ attempted[Len(attempted)] \notin DOMAIN yield

C2_TierOrder ==
    (SmartDone /\ outcome = "returned") =>
        /\ attempted = [i \in 1..Len(attempted) |-> i]
        /\ \A k \in 1..3 :
              InSeq(k + 1, attempted) <=> (k \in DOMAIN yield /\ Len(yield[k]) < MinResults)
        /\ \A k \in DOMAIN yield :
              (/\ Len(yield[k]) >= MinResults
               /\ \A j \in DOMAIN yield : j < k => Len(yield[j]) < MinResults)
              => result = yield[k]
        /\ (\A k \in DOMAIN yield : Len(yield[k]) < MinResults)
              => (4 \in DOMAIN yield /\ result = yield[4])

\* C2 (amended): the tiers are tried in the order 1, 2, 3, 4; tier 2 is
\* attempted iff tier 1 yielded fewer than 3 results, tier 3 iff tier 2
\* yielded fewer than 3 results, and tier 4 iff tier 3 yielded no result at
\* all; the list returned is the output of the last tier attempted, which has
\* at least 3 results for tiers 1 and 2 and at least 1 for tier 3.
C2_TierOrderAmended ==
    SmartDone =>
        /\ attempted = [i \in 1..Len(attempted) |-> i]
        /\ \A k \in 1..2 :
              InSeq(k + 1, attempted) <=> (k \in DOMAIN yield /\ Len(yield[k]) < MinResults)
        /\ InSeq(4, attempted) <=> (3 \in DOMAIN yield /\ yield[3] = << >>)
        /\ outcome = "returned" =>
              LET last == attempted[Len(attempted)] IN
              /\ last \in DOMAIN yield
              /\ result = yield[last]
              /\ last \in {1, 2} => Len(result) >= MinResults
              /\ last = 3 => Len(result) >= 1

C2_Witness ==
    /\ SmartDone
    /\ outcome = "returned"
    /\ attempted = <<1, 2, 3>>
    /\ Len(yield[2]) >= 1
    /\ Len(result) < MinResults

\* the list C3 describes for a document of n chunks
ClaimedSample(n) ==
    LET step == Max(1, n \div SampleDivisor)
        count == Min(SampleMax, (n + step - 1) \div step)
    IN [k \in 1..count |->
           [pdf_id |-> "A", chunk_index |-> (k - 1) * step, similarity |-> 0]]

\* C3: when tiers 1 and 2 each yield fewer than 3 results for a document with
\* N >= 1 chunks, smart_retrieval returns exactly the chunks at indices
\* 0, step, 2*step, ... with step = max(1, N // 10), in index order,
\* truncated to the first 10, each with similarity 0.0, for every N >= 1.
C3_UniformSample ==
    (SmartDone /\ outcome = "returned" /\ nChunks >= 1 /\ InSeq(3, attempted))
        => result = ClaimedSample(nChunks)

\* C4: in a list returned by smart_retrieval every result of a ranked tier
\* has a similarity of at least 0.4 and every result of a non-ranked tier has
\* similarity exactly 0.0; so a result has similarity 0.0 iff a non-ranked
\* tier produced it, and one list never mixes the two kinds.
C4_ZeroIsSentinel ==
    (SmartDone /\ outcome = "returned") =>
        LET last == attempted[Len(attempted)] IN
        /\ last \in {1, 2} =>
              \A i \in 1..Len(result) : result[i].similarity >= RelaxedThreshold
        /\ last \in {3, 4} =>
              \A i \in 1..Len(result) : result[i].similarity = 0
        /\ \A i, j \in 1..Len(result) :
              (result[i].similarity = 0) <=> (result[j].similarity = 0)

C4_Witness ==
    /\ SmartDone
    /\ outcome = "returned"
    /\ attempted = <<1, 2>>
    /\ \E i \in 1..Len(result) : result[i].similarity = RelaxedThreshold

\* C5: search returns at most top_k results, every one with similarity >=
\* threshold and, when pdf_id is given, belonging to that document, ordered by
\* non-increasing similarity; every result is a stored row, no row is
\* returned twice, and no row with an embedding inside the scope of the
\* search that is not returned has a higher similarity than a returned one.
C5_SearchContract ==
    (pc = "done" /\ req.op = "search" /\ outcome = "returned") =>
        LET k == IF req.top_k = NoArg THEN RETRIEVAL_TOP_K ELSE req.top_k
            th == IF req.threshold = NoArg THEN SIMILARITY_THRESHOLD ELSE req.threshold
            n == Len(result)
            stored == {Ranked(document_chunks[i]) : i \in 1..Len(document_chunks)}
            returned == {result[i] : i \in 1..n}
        IN
        /\ n <= k
        /\ \A i \in 1..n : result[i].similarity >= th
        /\ req.pdf_id # NoPdf => \A i \in 1..n : result[i].pdf_id = req.pdf_id
        /\ \A i \in 1..(n - 1) : result[i].similarity >= result[i + 1].similarity
        /\ returned \subseteq stored
        /\ Cardinality(returned) = n
        /\ \A r \in stored \ returned :
              (r.similarity # NullSim /\ (req.pdf_id = NoPdf \/ r.pdf_id = req.pdf_id))
              => \A i \in 1..n : r.similarity <= result[i].similarity

C5_Witness ==
    /\ pc = "done"
    /\ req.op = "search"
    /\ outcome = "returned"
    /\ req.pdf_id = "A"
    /\ req.top_k = 2
    /\ Len(result) = 2
    /\ result[1].similarity > result[2].similarity
    /\ result[1].chunk_index > result[2].chunk_index
    /\ nChunks = 3
    /\ \A i \in 1..3 : sims[i] >= req.threshold /\ req.threshold > 0

\* C32: search applies the top_k and the threshold its caller supplies,
\* for every value the request schema accepts, threshold 0 included; the
\* configured defaults are used only for an argument that is not supplied.
C32_SuppliedArgumentsApplied ==
    (pc = "done" /\ req.op = "search" /\ outcome = "returned") =>
        LET k == IF req.top_k = NoArg THEN RETRIEVAL_TOP_K ELSE req.top_k
            th == IF req.threshold = NoArg THEN SIMILARITY_THRESHOLD ELSE req.threshold
        IN  result = FormatRanked(SearchRows(req.pdf_id, k, th))

\* the rows of the document of the request that have an embedding
Embedded == {i \in 1..nChunks : RowsA[i].similarity # NullSim}

\* the rows of the document whose similarity is at least th
Reaching(th) == {i \in Embedded : RowsA[i].similarity >= th}

\* the rows of the document no other row of which is more similar to the query
BestRows ==
    {i \in Embedded : \A j \in Embedded : RowsA[j].similarity <= RowsA[i].similarity}

\* the returned list contains a chunk that is most similar to the query
ReturnsBest ==
    \E n \in 1..Len(result) : \E i \in BestRows :
        /\ result[n].pdf_id = "A"
        /\ result[n].chunk_index = RowsA[i].chunk_index

\* C33 (as claimed): whenever at least one chunk of the document has
\* similarity >= 0.6, the list smart_retrieval returns contains the chunk
\* of highest similarity, also when only one or two chunks reach the
\* thresholds.
C33_BestChunkReturned ==
    (SmartDone /\ outcome = "returned" /\ Reaching(StandardThreshold) # {})
        => ReturnsBest

\* C33 (amended): whenever at least one chunk of the document has similarity
\* >= 0.6 and at least three chunks have similarity >= 0.4, the list
\* smart_retrieval returns is the output of tier 1 or tier 2 and contains the
\* chunk of highest similarity, with that similarity.
C33_BestChunkOfThree ==
    (/\ SmartDone /\ outcome = "returned"
     /\ Reaching(StandardThreshold) # {}
     /\ Cardinality(Reaching(RelaxedThreshold)) >= MinResults)
        => /\ attempted[Len(attempted)] \in {1, 2}
           /\ \E n \in 1..Len(result) : \E i \in BestRows : result[n] = Ranked(RowsA[i])

C33_Witness ==
    /\ SmartDone
    /\ outcome = "returned"
    /\ attempted = <<1, 2>>
    /\ Cardinality(Reaching(StandardThreshold)) = 1
    /\ Cardinality(Reaching(RelaxedThreshold)) >= RelaxedTopK
    /\ 1 \notin BestRows
    /\ ReturnsBest

Cl == call[1]

ManyDone == Cl.op = "embed_batch" /\ Cl.pc = "done"

OneDone == Cl.op = "embed_single" /\ Cl.pc = "done"

\* C12: embed_batch(texts) returns exactly len(texts) vectors and the i-th
\* vector is the one obtained for texts[i] (from the cache, from the batch
\* request, from the single-item retry, or the zero vector), however the
\* texts are split over batches.
C12_InputOrder ==
    (ManyDone /\ Cl.outcome = "returned") =>
        /\ Len(Cl.ret) = Len(Cl.texts)
        /\ \A i \in 1..Len(Cl.ret) :
              Cl.ret[i] \in {Emb(Cl.texts[i], Cl.model), ZeroVector(Cl.model)}

Retrying(cl) == cl.pc \in {"retry_wait", "retry_sleep"}

\* the pair (idx, emb) is among the results the call has gathered
Gathered(cl, idx, emb) ==
    \/ \E i \in 1..Len(cl.batch_results) : cl.batch_results[i] = Pair(idx, emb)
    \/ \E i \in 1..Len(cl.results) : cl.results[i] = Pair(idx, emb)

\* the retry loop is through with its k-th text: the delay after a text that
\* was embedded is over, or the request for the text has failed
Moved(c, d) == c.pc = "retry_sleep" \/ (c.pc = "retry_wait" /\ d.answer # "ok")

\* C13: a remote failure never aborts embed_batch.  When the batch request
\* fails, the retry loop starts at the first text of the miss set and takes
\* the texts of the miss set one by one; a text whose own request fails gets
\* the zero vector; after the last text the call goes on to the next batch or
\* returns; it never raises.
C13_NeverAborts ==
    [][LET c == call[1]
           d == call'[1]
       IN (d.op = "embed_batch" /\ d # c) =>
            /\ d.outcome # "raised"
            /\ (d.pc = "done") => (d.outcome = "returned")
            /\ (c.pc = "batch_wait" /\ d.answer # "ok") =>
                  (Retrying(d) /\ d.k = 1 /\ d.uncached_texts = c.uncached_texts)
            /\ (c.pc = "retry_wait" /\ d.answer = "ok") =>
                  /\ d.pc = "retry_sleep" /\ d.k = c.k
                  /\ Gathered(d, c.uncached_indices[c.k],
                              Emb(c.uncached_texts[c.k], c.model))
            /\ (c.pc = "retry_wait" /\ d.answer # "ok") =>
                  Gathered(d, c.uncached_indices[c.k], ZeroVector(c.model))
            /\ (Retrying(c) /\ Moved(c, d) /\ c.k < Len(c.uncached_texts)) =>
                  (Retrying(d) /\ d.k = c.k + 1)
            /\ (Retrying(c) /\ Moved(c, d) /\ c.k = Len(c.uncached_texts)) =>
                  d.pc \in {"batch_sleep", "done"}
            /\ (c.pc = "batch_sleep") =>
                  d.pc \in {"batch_wait", "batch_sleep", "done"}
      ]_vars

\* a call of two batches whose first text got the zero vector and whose
\* last text was embedded
C13_Witness ==
    /\ ManyDone
    /\ Cl.outcome = "returned"
    /\ Cl.error = "transient"
    /\ Len(Cl.texts) = BATCH_SIZE + 1
    /\ Len(Cl.ret) = Len(Cl.texts)
    /\ Cl.ret[1] = ZeroVector(Cl.model)
    /\ Cl.ret[Len(Cl.ret)] = Emb(Cl.texts[Len(Cl.texts)], Cl.model)

\* C14: every vector one embed_batch call returns, a substituted zero vector
\* included, has the length of the vectors of the model of the call, for
\* every model the caller may pass.
C14_ModelDimension ==
    (ManyDone /\ Cl.outcome = "returned") =>
        \A i \in 1..Len(Cl.ret) : Cl.ret[i].dim = Dim(Cl.model)

\* the cache holds an entry for (text, model) when the step begins
Held(text, model) == cache_enabled /\ _generate_key(text, model) \in KeysOf(cache)

\* the step checks a batch against the cache: the first batch when the call
\* begins, the next one when the delay between two batches is over
ChecksBatch(c, d) == d.op = "embed_batch" /\ c.pc \in {"idle", "batch_sleep"}

\* the batch that step checks and the texts of it the cache does not hold
CheckedBatch(c, d) ==
    LET idx == IF c.pc = "idle" THEN 0 ELSE c.batch_idx + BATCH_SIZE
    IN SubSeq(d.texts, idx + 1, Min(idx + BATCH_SIZE, Len(d.texts)))

Missing(c, d) == SelectSeq(CheckedBatch(c, d), LAMBDA t : ~Held(t, d.model))

BatchRequest(c, d) ==
    [kind |-> "batch", input |-> Missing(c, d),
     batch |-> IF c.pc = "idle" THEN 0 ELSE c.batch_idx + BATCH_SIZE]

Occurrences(t, input) == Cardinality({i \in 1..Len(input) : input[i] = t})

RECURSIVE MissesIn(_, _)
MissesIn(remote, t) ==
    IF remote = << >> THEN 0
    ELSE (IF Head(remote).kind = "batch" THEN Occurrences(t, Head(remote).input) ELSE 0)
            + MissesIn(Tail(remote), t)

\* C16 (as claimed): embed_batch(["a", "a", "b"]) on a cache that holds
\* neither text reports exactly 1 miss for "a" (2 misses and 1 hit in all):
\* the second occurrence is a hit, in the same batch as the first or not.
C16_OneMissPerText ==
    (ManyDone /\ Cl.texts = <<"ta", "ta", "tb">> /\ Cl.cold /\ cache_enabled
        /\ Cl.error = "none") =>
        /\ MissesIn(Cl.remote, "ta") = 1
        /\ Cl.cache_misses = 2
        /\ Cl.cache_hits = 1

\* C16 (amended): every batch is checked against the cache as a whole before
\* anything of it is stored, so each occurrence in the batch of a text the
\* cache does not hold when the check begins is counted as a miss, and each
\* occurrence of a text it holds as a hit; a second occurrence is a hit only
\* in a later batch than the first.
C16_MissesPerBatch ==
    [][LET c == call[1]
           d == call'[1]
       IN (ChecksBatch(c, d) /\ d # c) =>
            /\ d.cache_misses = c.cache_misses + Len(Missing(c, d))
            /\ d.cache_hits = c.cache_hits + Len(CheckedBatch(c, d)) - Len(Missing(c, d))
      ]_vars

\* ["a", "a", "b"] on a cache that holds neither: both occurrences of "a"
\* were in the first batch request and 3 misses are reported
C16_Witness ==
    /\ ManyDone
    /\ Cl.texts = <<"ta", "ta", "tb">>
    /\ Cl.cold /\ cache_enabled /\ Cl.error = "none"
    /\ MissesIn(Cl.remote, "ta") = 2
    /\ Cl.cache_misses = 3
    /\ Cl.cache_hits = 0

\* the call before this one, to which the caller passed the same arguments
Again(d) ==
    /\ prev.op = d.op
    /\ prev.texts = (IF d.op = "embed_single" THEN <<d.text>> ELSE d.texts)
    /\ prev.model = d.model

\* C17: for every non-empty input list the counts embed_batch returns add up
\* to len(texts); a text embedded by one call and embedded again by the next
\* while its entry is still in the cache is counted as a miss by the first
\* call and as a hit by the second.
C17_HitsPlusMisses ==
    [][LET c == call[1]
           d == call'[1]
       IN /\ (d.op = "embed_batch" /\ d # c /\ d.pc = "done") =>
             /\ (d.texts # << >>) => d.cache_hits + d.cache_misses = Len(d.texts)
             /\ (Len(d.texts) = 1 /\ d.cold) =>
                   (d.cache_misses = 1 /\ d.cache_hits = 0)
             /\ (Len(d.texts) = 1 /\ cache_enabled /\ c.pc = "batch_wait"
                   /\ d.answer = "ok") =>
                   _generate_key(d.texts[1], d.model) \in KeysOf(cache')
          /\ (c.pc = "idle" /\ d.op = "embed_batch" /\ Len(d.texts) = 1
                /\ Again(d) /\ prev.embedded /\ Held(d.texts[1], d.model)) =>
                   /\ d.pc = "done"
                   /\ d.outcome = "returned"
                   /\ d.cache_hits = 1
                   /\ d.cache_misses = 0
                   /\ d.ret = <<Emb(d.texts[1], d.model)>>
                   /\ d.remote = << >>
      ]_vars

\* the second of two calls on the same text: the first counted a miss, the
\* second counts a hit
C17_Witness ==
    /\ ManyDone
    /\ Cl.texts = <<"ta">>
    /\ Cl.cache_hits = 1
    /\ Cl.cache_misses = 0
    /\ Cl.remote = << >>
    /\ Cl.again
    /\ cache_enabled

\* C18: with the cache enabled, embed_single looks the text up before it
\* sends anything: on a hit it returns the cached vector and sends no
\* request; on a miss it sends exactly one request; a well-formed answer
\* stores the vector, so that the next embed_single of the same text and
\* model is a hit; a failed request raises and stores nothing.
C18_CacheFirst ==
    [][LET c == call[1]
           d == call'[1]
           key == _generate_key(d.text, d.model)
       IN /\ (c.pc = "idle" /\ d.op = "embed_single" /\ ~IsBlank(d.text)
                /\ cache_enabled) =>
                /\ d.lookups = 1
                /\ IF Held(d.text, d.model)
                   THEN /\ d.pc = "done"
                        /\ d.outcome = "returned"
                        /\ d.ret = <<Lookup(cache, key)>>
                        /\ d.ret = <<Emb(d.text, d.model)>>
                        /\ d.remote = << >>
                   ELSE /\ d.pc = "single_wait"
                        /\ d.remote = <<[kind |-> "single", input |-> <<d.text>>,
                                         batch |-> 0]>>
          /\ (c.pc = "single_wait" /\ d # c) =>
                /\ d.pc = "done"
                /\ d.remote = c.remote
                /\ Len(d.remote) = 1
                /\ IF d.answer = "ok"
                   THEN /\ d.outcome = "returned"
                        /\ d.ret = <<Emb(d.text, d.model)>>
                        /\ cache_enabled =>
                              /\ key \in KeysOf(cache')
                              /\ Lookup(cache', key) = Emb(d.text, d.model)
                              /\ key \in DOMAIN timestamps'
                   ELSE /\ d.outcome = "raised"
                        /\ d.ret = << >>
                        /\ cache' = cache
                        /\ timestamps' = timestamps
          /\ (c.pc = "idle" /\ d.op = "embed_single" /\ Again(d) /\ prev.embedded
                /\ Held(d.text, d.model)) =>
                (d.pc = "done" /\ d.outcome = "returned" /\ d.remote = << >>)
      ]_vars

\* the second of two embed_single calls on one text: it sent nothing
C18_Witness ==
    /\ OneDone
    /\ Cl.again
    /\ cache_enabled
    /\ Cl.outcome = "returned"
    /\ Cl.remote = << >>
    /\ Cl.lookups = 1

\* C19: embed_single on an empty or whitespace-only text raises the input
\* error in its first step: no cache lookup, no request and no retry, and
\* the cache is left as it was.
C19_BlankRejected ==
    [][LET c == call[1]
           d == call'[1]
       IN (c.pc = "idle" /\ d.op = "embed_single" /\ strip(d.text) = "") =>
             /\ d.pc = "done"
             /\ d.outcome = "raised"
             /\ d.error = "input"
             /\ d.ret = << >>
             /\ d.lookups = 0
             /\ d.remote = << >>
             /\ cache' = cache
             /\ timestamps' = timestamps
      ]_vars

\* a whitespace-only text was rejected although the cache holds entries
C19_Witness ==
    /\ OneDone
    /\ Cl.text = " "
    /\ Cl.error = "input"
    /\ Cl.remote = << >>
    /\ cache_enabled
    /\ cache # << >>

\* C20: a permanent error of the endpoint (authentication failure, answer of
\* malformed shape) ends the call with that error: once a call has met one
\* it has raised, and it sends no further request.
C20_PermanentSurfaced ==
    Cl.error \in Permanent =>
        /\ Cl.pc = "done"
        /\ Cl.outcome = "raised"

\* a request is between two of its awaits
InFlight(p) == call[p].pc \notin {"idle", "done"}

\* C11: under every interleaving of concurrent embed_single, embed_batch and
\* clear requests the cache is whole in every state a request can observe:
\* every entry has its timestamp, every timestamp its entry, no key is held
\* twice and the number of entries is at most max_size.
C11_CacheWhole ==
    /\ KeysOf(cache) = DOMAIN timestamps
    /\ Cardinality(KeysOf(cache)) = Len(cache)
    /\ Len(cache) <= max_size

\* both requests are between awaits, the batch request past its first batch,
\* and the cache is full with an entry the other request stored
C11_Witness ==
    /\ InFlight(1)
    /\ InFlight(2)
    /\ call[1].batch_idx > 0
    /\ Len(cache) = max_size
    /\ \E i \in 1..Len(cache) : cache[i].val.model = "m2"

\* the step sends a request to the endpoint
Sends(c, d) == Len(d.remote) > Len(c.remote)

\* C29: in the single-item fallback of embed_batch a delay separates every
\* two consecutive single-item requests: the step that takes the answer to
\* one of them, good or bad, does not send the next.
C29_DelayBetweenRetries ==
    [][LET c == call[1]
           d == call'[1]
       IN c.pc = "retry_wait" => ~Sends(c, d)
      ]_vars

\* C30: the batches of one embed_batch call run one after another: the
\* requests of a batch (its single-item fallback included) all precede those
\* of the next batch, a batch begins only when the call begins or when the
\* delay after the batch before it is over, and the call sleeps after a
\* batch only when another batch follows.
C30_BatchesInTurn ==
    [][LET c == call[1]
           d == call'[1]
       IN (d.op = "embed_batch" /\ d # c) =>
             /\ \A i, j \in 1..Len(d.remote) :
                   i < j => d.remote[i].batch <= d.remote[j].batch
             /\ \A i \in 1..Len(d.remote) :
                   d.remote[i].kind = "batch" =>
                      \A j \in 1..Len(d.remote) :
                         (j # i /\ d.remote[j].batch = d.remote[i].batch) =>
                            (j > i /\ d.remote[j].kind = "single")
             /\ (c.op = "embed_batch" /\ d.batch_idx # c.batch_idx /\ d.pc # "done") =>
                   (c.pc = "batch_sleep" /\ d.batch_idx = c.batch_idx + BATCH_SIZE)
             /\ (Sends(c, d) /\ d.remote[Len(d.remote)].kind = "batch") =>
                   c.pc \in {"idle", "batch_sleep"}
             /\ (d.pc = "batch_sleep") =>
                   d.batch_idx + BATCH_SIZE < Len(d.texts)
             /\ (c.pc # "batch_sleep" /\ d.pc \notin {"batch_sleep", "done"}) =>
                   d.batch_idx = c.batch_idx
      ]_vars

\* the second batch of a call is at its request, the first having gone
\* through its fallback
C30_Witness ==
    /\ Cl.op = "embed_batch"
    /\ Cl.pc = "batch_wait"
    /\ Cl.batch_idx = BATCH_SIZE
    /\ \E i \in 1..Len(Cl.remote) : Cl.remote[i].kind = "single"
    /\ Cl.remote[Len(Cl.remote)] =
          [kind |-> "batch", input |-> Cl.uncached_texts, batch |-> BATCH_SIZE]

\* C36: no substituted zero vector is ever written to the cache: every
\* cache entry holds the vector the endpoint returns for the text and model
\* of its key, so a text whose embedding failed is not stored and is asked
\* of the endpoint again.
C36_NoZeroVectorCached ==
    \A i \in 1..Len(cache) :
        /\ \A m \in Models : cache[i].val # ZeroVector(m)
        /\ \E t \in Texts, m \in Models :
              cache[i].key = _generate_key(t, m) /\ cache[i].val = Emb(t, m)

C36_Witness ==
    /\ ManyDone
    /\ cache_enabled
    /\ Cl.outcome = "returned"
    /\ Len(Cl.texts) >= 2
    /\ Len(Cl.ret) = Len(Cl.texts)
    /\ Cl.ret[1] = ZeroVector(Cl.model)
    /\ _generate_key(Cl.texts[1], Cl.model) \notin KeysOf(cache)
    /\ \E n \in 2..Len(Cl.texts) : _generate_key(Cl.texts[n], Cl.model) \in KeysOf(cache)

(***************************************************************************)
(* Claims about QueryRewriter.                                             *)
(***************************************************************************)
RewriteDone == rw.pc = "done"

\* the helper ended without an exception and without a text
CameEmpty(o) == ~o.raised /\ ~Truthy(o.text)

C22_DisabledIsNoOp ==
    ~enabled =>
        /\ rw.pc \in {"idle", "done"}
        /\ rw.llm = 0
        /\ RewriteDone =>
              /\ rw.outcome = "returned"
              /\ rw.query_type = "original"
              /\ rw.final_query = rw.query
              /\ rw.original_query = rw.query
              /\ rw.steps = << >>
              /\ rw.normalized_query = NoText
              /\ rw.sub_queries = NoText

C22_Witness ==
    /\ RewriteDone
    /\ ~enabled
    /\ rw.query = <<"x", "and", "y">>
    /\ rw.query_type = "original"

\* C23 (as claimed): enabled and without an exception, the type is
\* decomposition when the user's query holds a keyword and expansion when it
\* holds none, whatever the normalization returned.
C23_ClassifiedByUserQuery ==
    (RewriteDone /\ enabled /\ ~rw.error) =>
        rw.query_type = (IF is_compound(rw.query) THEN "decomposition" ELSE "expansion")

\* the text rewrite classifies: the normalized query, the user's query when
\* the normalization gave none
Analysed == IF rw.normalized_query # NoText THEN rw.normalized_query ELSE rw.query

\* C23 (amended): enabled and without an exception, the type is
\* decomposition when the normalized query holds a keyword and expansion
\* when it holds none; the user's query decides only when the normalization
\* failed.
C23_ClassifiedByNormalized ==
    (enabled /\ ~rw.error /\ rw.pc \in {"decompose", "expand", "done"}) =>
        /\ rw.query_type = (IF is_compound(Analysed) THEN "decomposition" ELSE "expansion")
        /\ rw.pc = "decompose" => rw.query_type = "decomposition"
        /\ rw.pc = "expand" => rw.query_type = "expansion"

\* a query with a keyword whose normalization has none went to expansion
C23_Witness ==
    /\ RewriteDone
    /\ ~rw.error
    /\ is_compound(rw.query)
    /\ rw.normalized_query = <<"x">>
    /\ rw.query_type = "expansion"

\* C24: a helper that fails (it returns no text) costs its own stage only.
\* After a failed normalization the call goes on with the original query
\* and has recorded the failure; after a failed decomposition or expansion
\* the call returns the normalized query (the original one when the
\* normalization failed too), records the failure and keeps its type.
C24_OneStageDegrades ==
    (Len(rw.heard) >= 1 /\ ~rw.heard[1].raised) =>
        /\ CameEmpty(rw.heard[1]) =>
              /\ rw.steps[1] = "normalize_failed"
              /\ rw.normalized_query = NoText
              /\ rw.pc \in {"decompose", "expand"} =>
                    rw.final_query = rw.original_query
        /\ (Len(rw.heard) = 2 /\ CameEmpty(rw.heard[2])) =>
              /\ RewriteDone
              /\ rw.outcome = "returned"
              /\ ~rw.error
              /\ rw.final_query = (IF CameEmpty(rw.heard[1]) THEN rw.original_query
                                   ELSE rw.heard[1].text)
              /\ \/ /\ rw.query_type = "decomposition"
                    /\ rw.steps[Len(rw.steps)] = "decompose_failed"
                 \/ /\ rw.query_type = "expansion"
                    /\ rw.steps[Len(rw.steps)] = "expand_failed"
              /\ Len(rw.steps) = 3

\* the normalization and the decomposition both failed
C24_Witness ==
    /\ RewriteDone
    /\ Len(rw.heard) = 2
    /\ CameEmpty(rw.heard[1])
    /\ CameEmpty(rw.heard[2])
    /\ rw.query_type = "decomposition"
    /\ rw.final_query = rw.original_query
    /\ rw.steps = <<"normalize_failed", "decomposing", "decompose_failed">>

\* C37: whatever the LLM answers to the normalize, decompose and expand
\* requests, the final query of a finished rewrite of a non-blank query is
\* not blank, so embed_single accepts it.
C37_FinalQueryNotBlank ==
    (RewriteDone /\ ~Blank(rw.query)) => ~Blank(rw.final_query)

(***************************************************************************)
(* Claims about TextChunker and the chunk store.                           *)
(***************************************************************************)

\* chunk_by_pages has returned
ChunkDone == job[1].op = "chunk" /\ job[1].pc = "done"

\* C25: in the output of chunk_by_pages the k-th chunk (k from 0) has
\* chunk_index = k, whatever the number of pages with text.
C25_ReindexedAcrossPages ==
    ChunkDone =>
        \A k \in 1..Len(job[1].chunks) : job[1].chunks[k].chunk_index = k - 1

\* C26: in every reachable state of the chunk store no two rows of
\* document_chunks have the same (pdf_id, chunk_index).
C26_UniqueIndexPerDocument ==
    \A r \in BagToSet(chunk_rows) :
        /\ CopiesIn(r, chunk_rows) = 1
        /\ \A q \in BagToSet(chunk_rows) :
              (q.pdf_id = r.pdf_id /\ q.chunk_index = r.chunk_index) => q = r

\* the request of p is an upload or a reprocess that has not ended
Processing(p) == job[p].op \in {"upload", "reprocess"} /\ job[p].pc # "done"

\* the step is one of the request of p
StepOf(p) == job'[p] # job[p]

\* the step of p ends a processing in which an insert had failed
EndsBroken(p) == Processing(p) /\ job'[p].pc = "done" /\ job'[p].broke > 0

\* a step of the processing of document A changes no row of another document
KeepsOthers(p) ==
    (Processing(p) /\ StepOf(p)) =>
        OtherRows(chunk_rows', job[p].pdf_id) = OtherRows(chunk_rows, job[p].pdf_id)

\* the status updates the failure path of the request tries: the handler of
\* process_pdf, and for an upload the endpoint once more
Attempts(op) == IF op = "upload" THEN 2 ELSE 1

\* C28 as claimed: when the k-th chunk insert of document A fails, the
\* processing changes no row of another document and ends having set the
\* status of A to failed.
C28_FailedInsertEndsFailed ==
    [][\A p \in Procs :
          /\ KeepsOthers(p)
          /\ EndsBroken(p) => job'[p].wrote = "failed"]_vars

\* C28: when the k-th chunk insert of document A fails, the processing
\* changes no row of another document, never sets the status of A to ready,
\* and sets it to failed unless every status update it tries raises too.
C28_FailedInsertNeverReady ==
    [][\A p \in Procs :
          /\ KeepsOthers(p)
          /\ (Processing(p) /\ job[p].broke > 0) => job'[p].wrote # "ready"
          /\ EndsBroken(p) =>
                \/ job'[p].wrote = "failed"
                \/ job'[p].wrote = "none" /\ job'[p].lost = Attempts(job'[p].op)
          /\ (Processing(p) /\ job[p].wrote # "failed" /\ job'[p].wrote = "failed"
                 /\ HasRow(job[p].pdf_id)) =>
                pdfs'[job[p].pdf_id].status = "failed"]_vars

C28_Witness ==
    \E p \in Procs :
        /\ job[p].pc = "done" /\ job[p].broke > 0 /\ job[p].wrote = "failed"
        /\ pdfs[job[p].pdf_id].status = "failed"
        /\ RowsOf(chunk_rows, job[p].pdf_id) # EmptyBag
        /\ OtherRows(chunk_rows, job[p].pdf_id) # EmptyBag

\* the number of rows of document_chunks of document d
StoredChunks(d) == BagCardinality(RowsOf(chunk_rows, d))

\* C34: in every reachable state a document whose status is ready has as
\* many rows in document_chunks as its totalChunks records, at every step of
\* upload, reprocess and delete.
C34_ReadyHasAllChunks ==
    \A d \in Docs : pdfs[d].status = "ready" => StoredChunks(d) = pdfs[d].totalChunks

(***************************************************************************)
(* Claims about chat_with_pdf.                                             *)
(***************************************************************************)

\* C35: chat issues a rewrite, retrieval or LLM call only when the status
\* it read is ready; for a missing document it answers 404 and for status
\* processing, failed or any other value 400, and then it has issued no
\* call.
C35_ChatOnlyWhenReady ==
    \A p \in Procs :
        job[p].op = "chat" =>
            /\ job[p].calls # << >> => job[p].seen = "ready"
            /\ (job[p].pc = "done" /\ job[p].seen \in {"none", "gone"})
                  => (job[p].outcome = 404 /\ job[p].calls = << >>)
            /\ (job[p].pc = "done" /\ job[p].seen \in Statuses \ {"ready"})
                  => (job[p].outcome = 400 /\ job[p].calls = << >>)

C35_Witness ==
    /\ job[1].op = "chat" /\ job[1].pc = "done"
    /\ job[1].seen = "archived" /\ job[1].outcome = 400 /\ job[1].calls = << >>
    /\ job[2].op = "chat" /\ job[2].pc = "done"
    /\ job[2].seen = "ready" /\ job[2].calls = <<"rewrite", "retrieval", "llm">>
    /\ job[2].pdf_id = job[1].pdf_id

====
